---- MODULE Spec2Model ----
(***************************************************************************)
(* Model of the transaction executor RunTx of minter-go-node               *)
(* (core/transaction/executor.go).                                         *)
(*                                                                         *)
(* Amounts are counted in units of 10^9 pip (the value of                  *)
(* CommissionMultiplier, big.NewInt(10e8)), so that a commission           *)
(* gasPrice * gas * CommissionMultiplier pip is gasPrice * gas units.      *)
(* The state database, the bonding-curve formulas, the transaction and     *)
(* check decoders are packages of the repository that RunTx calls; they    *)
(* are modelled from their documented contracts.                           *)
(***************************************************************************)
EXTENDS Integers, Sequences, FiniteSets, TLC

VARIABLES context, rewardPull, last, accepted, redeemed, steps

vars == <<context, rewardPull, last, accepted, redeemed, steps>>

\* ---------------------------------------------------------------- bounds

\* number of RunTx calls explored after the initial state
MaxSteps == 2
\* block height passed to every call as currentBlock
CurrentBlock == 100
\* genesis base-coin balances of the two accounts
GenesisA1 == 10
GenesisA2 == 3

\* ------------------------------------------------------------- constants

\* CommissionMultiplier = big.NewInt(10e8), in units of 10^9 pip
CommissionMultiplier == 1000000000 \div 1000000000
maxTxLength == 1024
maxPayloadLength == 128
maxServiceDataLength == 128
minCommission == 0
maxCommission == 100
unboundPeriod == 518400
\* 10^9 units = 10^18 pip: the scale of the CreateCoin symbol price
GigaUnit == 1000000000

\* ------------------------------------------------------------ vocabulary

Addr == {"a1", "a2"}

\* coin symbols
BaseCoin == "MNT"
CoinC == "COIN00001"
CoinN == "NEWCOIN002"
CoinBad == "no"
CoinShort == "ABCD"

\* the symbols an account can hold a balance in
Syms == {BaseCoin, CoinC, CoinN}
\* the symbols of the coin registry (the base coin has no entry)
RegSyms == {CoinC, CoinN}

\* symbol.String(), as the sequence of its characters
SymbolString(symbol) ==
  CASE symbol = BaseCoin -> <<"M", "N", "T">>
    [] symbol = CoinC -> <<"C", "O", "I", "N", "0", "0", "0", "0", "1">>
    [] symbol = CoinN -> <<"N", "E", "W", "C", "O", "I", "N", "0", "0", "2">>
    [] symbol = CoinBad -> <<"n", "o">>
    [] symbol = CoinShort -> <<"A", "B", "C", "D">>

UpperAndDigits ==
  {"A", "B", "C", "D", "E", "F", "G", "H", "I", "J", "K", "L", "M", "N", "O",
   "P", "Q", "R", "S", "T", "U", "V", "W", "X", "Y", "Z",
   "0", "1", "2", "3", "4", "5", "6", "7", "8", "9"}

\* regexp.MatchString(allowedCoinSymbols, s), allowedCoinSymbols = "^[A-Z0-9]{3,10}$"
allowedCoinSymbols(s) ==
  /\ Len(s) >= 3
  /\ Len(s) <= 10
  /\ \A i \in 1..Len(s) : s[i] \in UpperAndDigits

\* candidate public keys: an identifier and its length in bytes
PubKeyIds == {"P1", "P2"}

Abs(x) == IF x < 0 THEN -x ELSE x

\* big.Int quotient, truncated toward zero
Quo(a, b) ==
  IF (a >= 0) = (b > 0) THEN Abs(a) \div Abs(b) ELSE -(Abs(a) \div Abs(b))

\* largest n with n * n <= x, for x >= 0
ISqrt(x) == CHOOSE n \in 0..x : n * n <= x /\ (n + 1) * (n + 1) > x

\* smallest n with n * n * den >= num, for num >= 0, den > 0
CeilSqrtRatio(num, den) ==
  CHOOSE n \in 0..(num + 1) :
    /\ n * n * den >= num
    /\ (n = 0 \/ (n - 1) * (n - 1) * den < num)

\* ----------------------------------------------- bonding-curve formulas
\* formula.Calculate*: vol, res, crr, amount.  crr/100 is 1 or 1/2 for the
\* ratios the model registers (100 and 50); results are truncated.

SupportedCrr == {50, 100}

\* purchase_return = vol * ((1 + in/res)^(crr/100) - 1)
DefinedPurchaseReturn(vol, res, crr, amount) ==
  /\ res # 0
  /\ crr = 100 \/ (vol >= 0 /\ ((res > 0 /\ res + amount >= 0) \/ (res < 0 /\ res + amount <= 0)))

CalculatePurchaseReturn(vol, res, crr, amount) ==
  IF crr = 100
  THEN Quo(vol * amount, res)
  ELSE ISqrt(Quo(vol * vol * Abs(res + amount), Abs(res))) - vol

\* sale_return = res * (1 - (1 - in/vol)^(100/crr))
DefinedSaleReturn(vol, res, crr, amount) == vol # 0

CalculateSaleReturn(vol, res, crr, amount) ==
  IF crr = 100
  THEN Quo(res * amount, vol)
  ELSE Quo(res * (vol * vol - (vol - amount) * (vol - amount)), vol * vol)

\* purchase_amount = res * ((1 + out/vol)^(100/crr) - 1)
DefinedPurchaseAmount(vol, res, crr, amount) == vol # 0

CalculatePurchaseAmount(vol, res, crr, amount) ==
  IF crr = 100
  THEN Quo(res * amount, vol)
  ELSE Quo(res * ((vol + amount) * (vol + amount) - vol * vol), vol * vol)

\* sale_amount = vol * (1 - (1 - out/res)^(crr/100))
DefinedSaleAmount(vol, res, crr, amount) ==
  /\ res # 0
  /\ crr = 100 \/ (vol >= 0 /\ ((res > 0 /\ res - amount >= 0) \/ (res < 0 /\ res - amount <= 0)))

CalculateSaleAmount(vol, res, crr, amount) ==
  IF crr = 100
  THEN Quo(vol * amount, res)
  ELSE vol - CeilSqrtRatio(vol * vol * Abs(res - amount), Abs(res))


\* ------------------------------------------------------- state.StateDB

GetBalance(ctx, address, coin) == ctx.balance[<<address, coin>>]

AddBalance(ctx, address, coin, v) ==
  [ctx EXCEPT !.balance[<<address, coin>>] = @ + v]

SubBalance(ctx, address, coin, v) ==
  [ctx EXCEPT !.balance[<<address, coin>>] = @ - v]

GetNonce(ctx, address) == ctx.nonce[address]

SetNonce(ctx, address, n) == [ctx EXCEPT !.nonce[address] = n]

CoinExists(ctx, symbol) ==
  \/ symbol = BaseCoin
  \/ symbol \in RegSyms /\ ctx.coins[symbol].exists

\* GetStateCoin yields an entry only for a registered symbol
HasStateCoin(ctx, symbol) == symbol \in RegSyms /\ ctx.coins[symbol].exists

GetStateCoin(ctx, symbol) == ctx.coins[symbol]

CreateCoin(ctx, symbol, name, volume, crr, reserve, creator) ==
  [ctx EXCEPT !.coins[symbol] =
     [exists |-> TRUE, name |-> name, volume |-> volume,
      reserve |-> reserve, crr |-> crr, creator |-> creator]]

AddCoinVolume(ctx, symbol, v) == [ctx EXCEPT !.coins[symbol].volume = @ + v]

SubCoinVolume(ctx, symbol, v) == [ctx EXCEPT !.coins[symbol].volume = @ - v]

AddCoinReserve(ctx, symbol, v) == [ctx EXCEPT !.coins[symbol].reserve = @ + v]

SubCoinReserve(ctx, symbol, v) == [ctx EXCEPT !.coins[symbol].reserve = @ - v]

CandidateExists(ctx, pubkey) ==
  pubkey.id \in PubKeyIds /\ pubkey.len = 32 /\ ctx.candidates[pubkey.id].exists

GetStateCandidate(ctx, pubkey) == ctx.candidates[pubkey.id]

NoStakes == [k \in Addr \X Syms |-> [has |-> FALSE, value |-> 0]]

NoCandidate ==
  [exists |-> FALSE, CandidateAddress |-> "none", Commission |-> 0,
   CreatedAtBlock |-> 0, Status |-> "none", Stakes |-> NoStakes]

\* the initial stake is owned by the address CreateCandidate is given
CreateCandidate(ctx, address, pubkey, commission, block, coin, stake) ==
  [ctx EXCEPT !.candidates[pubkey.id] =
     [exists |-> TRUE, CandidateAddress |-> address, Commission |-> commission,
      CreatedAtBlock |-> block, Status |-> "offline",
      Stakes |-> [NoStakes EXCEPT ![<<address, coin>>] =
                    [has |-> TRUE, value |-> stake]]]]

SetCandidateOnline(ctx, pubkey) ==
  [ctx EXCEPT !.candidates[pubkey.id].Status = "online"]

SetCandidateOffline(ctx, pubkey) ==
  [ctx EXCEPT !.candidates[pubkey.id].Status = "offline"]

\* candidate.GetStakeOfAddress: the stake entry, has = FALSE when nil
GetStakeOfAddress(candidate, address, coin) == candidate.Stakes[<<address, coin>>]

Delegate(ctx, sender, pubkey, coin, stake) ==
  [ctx EXCEPT !.candidates[pubkey.id].Stakes[<<sender, coin>>] =
     [has |-> TRUE, value |-> @.value + stake]]

SubStake(ctx, sender, pubkey, coin, v) ==
  [ctx EXCEPT !.candidates[pubkey.id].Stakes[<<sender, coin>>].value = @ - v]

\* GetOrNewStateFrozenFunds(block).AddFund(...)
AddFund(ctx, block, address, pubkey, coin, v) ==
  [ctx EXCEPT !.frozenFunds =
     Append(@, [block |-> block, address |-> address, pubkey |-> pubkey.id,
                coin |-> coin, value |-> v])]

IsCheckUsed(ctx, check) == check \in ctx.usedChecks

UseCheck(ctx, check) == [ctx EXCEPT !.usedChecks = @ \cup {check}]

\* ------------------------------------------------------------ responses

Response(code, gas, tags) ==
  [returned |-> TRUE, Code |-> code, GasUsed |-> gas, GasWanted |-> gas,
   Tags |-> tags]

\* RunTx returns an error Response; nothing was written
Fail(code, ctx, pool) ==
  [resp |-> Response(code, 0, <<>>), context |-> ctx, rewardPull |-> pool]

\* RunTx returns OK
Done(gas, tags, ctx, pool) ==
  [resp |-> Response("OK", gas, tags), context |-> ctx, rewardPull |-> pool]

\* RunTx does not return: a nil coin entry is dereferenced or a formula is
\* evaluated outside its domain
Crash(ctx, pool) ==
  [resp |-> [returned |-> FALSE, Code |-> "Panic", GasUsed |-> 0,
             GasWanted |-> 0, Tags |-> <<>>],
   context |-> ctx, rewardPull |-> pool]

\* tx.Gas()
Gas(tx) == tx.gas

\* big.NewInt(0).Mul(tx.GasPrice, big.NewInt(tx.Gas())) * CommissionMultiplier
CommissionInBaseCoin(tx) == tx.GasPrice * Gas(tx) * CommissionMultiplier


\* ------------------------------------------------------------- handlers
\* Each handler is RunTx's case for one transaction type, after the
\* envelope checks: ctx and pool are the state and the reward pool before
\* the call, sender the recovered sender.

\* case TypeDeclareCandidacy
DeclareCandidacy(ctx, pool, isCheck, tx, sender, currentBlock) ==
  LET data == tx.data
      commissionInBaseCoin == CommissionInBaseCoin(tx)
      coin == GetStateCoin(ctx, data.Coin)
      commission ==
        IF data.Coin # BaseCoin
        THEN CalculateSaleAmount(coin.volume, coin.reserve, coin.crr, commissionInBaseCoin)
        ELSE commissionInBaseCoin
      totalTxCost == data.Stake + commission
  IN IF data.PubKey.len # 32 THEN Fail("IncorrectPubKey", ctx, pool)
     ELSE IF data.Coin # BaseCoin /\ ~HasStateCoin(ctx, data.Coin) THEN Crash(ctx, pool)
     ELSE IF data.Coin # BaseCoin /\ coin.reserve < commissionInBaseCoin
       THEN Fail("CoinReserveNotSufficient", ctx, pool)
     ELSE IF data.Coin # BaseCoin
             /\ ~DefinedSaleAmount(coin.volume, coin.reserve, coin.crr, commissionInBaseCoin)
       THEN Crash(ctx, pool)
     ELSE IF GetBalance(ctx, sender, data.Coin) < totalTxCost
       THEN Fail("InsufficientFunds", ctx, pool)
     ELSE IF CandidateExists(ctx, data.PubKey) THEN Fail("CandidateExists", ctx, pool)
     ELSE IF data.Commission < minCommission \/ data.Commission > maxCommission
       THEN Fail("WrongCommission", ctx, pool)
     ELSE IF ~isCheck
       THEN Done(Gas(tx), <<>>,
              SetNonce(
                CreateCandidate(SubBalance(ctx, sender, data.Coin, totalTxCost),
                                data.Address, data.PubKey, data.Commission,
                                currentBlock, data.Coin, data.Stake),
                sender, tx.Nonce),
              pool + commission)
     ELSE Done(Gas(tx), <<>>, ctx, pool)

\* faulty variant of SetCandidateOn: the sender is not compared with the
\* owner address of the candidate
SetCandidateOnAnyone(ctx, pool, isCheck, tx, sender) ==
  LET data == tx.data
      commission == CommissionInBaseCoin(tx)
  IN IF GetBalance(ctx, sender, BaseCoin) < commission
       THEN Fail("InsufficientFunds", ctx, pool)
     ELSE IF ~CandidateExists(ctx, data.PubKey) THEN Fail("CandidateNotFound", ctx, pool)
     ELSE IF ~isCheck
       THEN Done(Gas(tx), <<>>,
              SetNonce(
                SetCandidateOnline(SubBalance(ctx, sender, BaseCoin, commission),
                                   data.PubKey),
                sender, tx.Nonce),
              pool + commission)
     ELSE Done(Gas(tx), <<>>, ctx, pool)

\* case TypeSetCandidateOnline
SetCandidateOn(ctx, pool, isCheck, tx, sender) ==
  LET data == tx.data
      commission == CommissionInBaseCoin(tx)
      candidate == GetStateCandidate(ctx, data.PubKey)
  IN IF GetBalance(ctx, sender, BaseCoin) < commission
       THEN Fail("InsufficientFunds", ctx, pool)
     ELSE IF ~CandidateExists(ctx, data.PubKey) THEN Fail("CandidateNotFound", ctx, pool)
     ELSE IF candidate.CandidateAddress # sender
       THEN Fail("IsNotOwnerOfCandidate", ctx, pool)
     ELSE IF ~isCheck
       THEN Done(Gas(tx), <<>>,
              SetNonce(
                SetCandidateOnline(SubBalance(ctx, sender, BaseCoin, commission),
                                   data.PubKey),
                sender, tx.Nonce),
              pool + commission)
     ELSE Done(Gas(tx), <<>>, ctx, pool)

\* case TypeSetCandidateOffline
SetCandidateOff(ctx, pool, isCheck, tx, sender) ==
  LET data == tx.data
      commission == CommissionInBaseCoin(tx)
      candidate == GetStateCandidate(ctx, data.PubKey)
  IN IF GetBalance(ctx, sender, BaseCoin) < commission
       THEN Fail("InsufficientFunds", ctx, pool)
     ELSE IF ~CandidateExists(ctx, data.PubKey) THEN Fail("CandidateNotFound", ctx, pool)
     ELSE IF candidate.CandidateAddress # sender
       THEN Fail("IsNotOwnerOfCandidate", ctx, pool)
     ELSE IF ~isCheck
       THEN Done(Gas(tx), <<>>,
              SetNonce(
                SetCandidateOffline(SubBalance(ctx, sender, BaseCoin, commission),
                                    data.PubKey),
                sender, tx.Nonce),
              pool + commission)
     ELSE Done(Gas(tx), <<>>, ctx, pool)

\* case TypeDelegate
DelegateTx(ctx, pool, isCheck, tx, sender) ==
  LET data == tx.data
      commissionInBaseCoin == CommissionInBaseCoin(tx)
      coin == GetStateCoin(ctx, data.Coin)
      commission ==
        IF data.Coin # BaseCoin
        THEN CalculateSaleAmount(coin.volume, coin.reserve, coin.crr, commissionInBaseCoin)
        ELSE commissionInBaseCoin
      totalTxCost == data.Stake + commission
  IN IF data.Coin # BaseCoin /\ ~HasStateCoin(ctx, data.Coin) THEN Crash(ctx, pool)
     ELSE IF data.Coin # BaseCoin /\ coin.reserve < commissionInBaseCoin
       THEN Fail("CoinReserveNotSufficient", ctx, pool)
     ELSE IF data.Coin # BaseCoin
             /\ ~DefinedSaleAmount(coin.volume, coin.reserve, coin.crr, commissionInBaseCoin)
       THEN Crash(ctx, pool)
     ELSE IF GetBalance(ctx, sender, data.Coin) < totalTxCost
       THEN Fail("InsufficientFunds", ctx, pool)
     ELSE IF ~CandidateExists(ctx, data.PubKey) THEN Fail("CandidateNotFound", ctx, pool)
     ELSE IF ~isCheck
       THEN Done(Gas(tx), <<>>,
              SetNonce(
                Delegate(SubBalance(ctx, sender, data.Coin, totalTxCost),
                         sender, data.PubKey, data.Coin, data.Stake),
                sender, tx.Nonce),
              pool + commission)
     ELSE Done(Gas(tx), <<>>, ctx, pool)

\* faulty variant of Unbond: the funds are frozen until the current block
UnbondAtOnce(ctx, pool, isCheck, tx, sender, currentBlock) ==
  LET data == tx.data
      commission == CommissionInBaseCoin(tx)
      candidate == GetStateCandidate(ctx, data.PubKey)
      stake == GetStakeOfAddress(candidate, sender, data.Coin)
  IN IF GetBalance(ctx, sender, BaseCoin) < commission
       THEN Fail("InsufficientFunds", ctx, pool)
     ELSE IF ~CandidateExists(ctx, data.PubKey) THEN Fail("CandidateNotFound", ctx, pool)
     ELSE IF ~stake.has THEN Fail("StakeNotFound", ctx, pool)
     ELSE IF stake.value < data.Value THEN Fail("InsufficientStake", ctx, pool)
     ELSE IF ~isCheck
       THEN Done(Gas(tx), <<>>,
              SetNonce(
                AddFund(
                  SubStake(SubBalance(ctx, sender, BaseCoin, commission),
                           sender, data.PubKey, data.Coin, data.Value),
                  currentBlock, sender, data.PubKey, data.Coin, data.Value),
                sender, tx.Nonce),
              pool + commission)
     ELSE Done(Gas(tx), <<>>, ctx, pool)

\* case TypeUnbond
Unbond(ctx, pool, isCheck, tx, sender, currentBlock) ==
  LET data == tx.data
      commission == CommissionInBaseCoin(tx)
      candidate == GetStateCandidate(ctx, data.PubKey)
      stake == GetStakeOfAddress(candidate, sender, data.Coin)
      unboundAtBlock == currentBlock + unboundPeriod
  IN IF GetBalance(ctx, sender, BaseCoin) < commission
       THEN Fail("InsufficientFunds", ctx, pool)
     ELSE IF ~CandidateExists(ctx, data.PubKey) THEN Fail("CandidateNotFound", ctx, pool)
     ELSE IF ~stake.has THEN Fail("StakeNotFound", ctx, pool)
     ELSE IF stake.value < data.Value THEN Fail("InsufficientStake", ctx, pool)
     ELSE IF ~isCheck
       THEN Done(Gas(tx), <<>>,
              SetNonce(
                AddFund(
                  SubStake(SubBalance(ctx, sender, BaseCoin, commission),
                           sender, data.PubKey, data.Coin, data.Value),
                  unboundAtBlock, sender, data.PubKey, data.Coin, data.Value),
                sender, tx.Nonce),
              pool + commission)
     ELSE Done(Gas(tx), <<>>, ctx, pool)

\* faulty variant of SendDeliver: the recipient is credited with the total cost
\* of the transaction instead of the value
SendDeliverCreditsCost(ctx, tx, sender, commission, commissionInBaseCoin, totalTxCost) ==
  LET data == tx.data
      c1 == IF data.Coin # BaseCoin
            THEN SubCoinReserve(SubCoinVolume(ctx, data.Coin, commission),
                                data.Coin, commissionInBaseCoin)
            ELSE ctx
      c2 == SubBalance(c1, sender, data.Coin, totalTxCost)
      c3 == AddBalance(c2, data.To, data.Coin, totalTxCost)
  IN SetNonce(c3, sender, tx.Nonce)

\* faulty variant of SendDeliver: the commission is not taken from the volume
\* of the coin
SendDeliverKeepsVolume(ctx, tx, sender, commission, commissionInBaseCoin, totalTxCost) ==
  LET data == tx.data
      c1 == IF data.Coin # BaseCoin
            THEN SubCoinReserve(ctx, data.Coin, commissionInBaseCoin)
            ELSE ctx
      c2 == SubBalance(c1, sender, data.Coin, totalTxCost)
      c3 == AddBalance(c2, data.To, data.Coin, data.Value)
  IN SetNonce(c3, sender, tx.Nonce)

\* faulty variant of SendDeliver: the commission in base coin is not taken
\* from the reserve of the coin
SendDeliverKeepsReserve(ctx, tx, sender, commission, commissionInBaseCoin, totalTxCost) ==
  LET data == tx.data
      c1 == IF data.Coin # BaseCoin
            THEN SubCoinVolume(ctx, data.Coin, commission)
            ELSE ctx
      c2 == SubBalance(c1, sender, data.Coin, totalTxCost)
      c3 == AddBalance(c2, data.To, data.Coin, data.Value)
  IN SetNonce(c3, sender, tx.Nonce)

\* the state writes of a delivered Send, in the order of the code
SendDeliver(ctx, tx, sender, commission, commissionInBaseCoin, totalTxCost) ==
  LET data == tx.data
      c1 == IF data.Coin # BaseCoin
            THEN SubCoinReserve(SubCoinVolume(ctx, data.Coin, commission),
                                data.Coin, commissionInBaseCoin)
            ELSE ctx
      c2 == SubBalance(c1, sender, data.Coin, totalTxCost)
      c3 == AddBalance(c2, data.To, data.Coin, data.Value)
  IN SetNonce(c3, sender, tx.Nonce)

\* faulty variant of Send: the funds of the sender are compared with the value
\* before the reserve of the coin is compared with the commission
SendFundsFirst(ctx, pool, isCheck, tx, sender) ==
  LET data == tx.data
      commissionInBaseCoin == CommissionInBaseCoin(tx)
      coin == GetStateCoin(ctx, data.Coin)
      commission ==
        IF data.Coin # BaseCoin
        THEN CalculateSaleAmount(coin.volume, coin.reserve, coin.crr, commissionInBaseCoin)
        ELSE commissionInBaseCoin
      totalTxCost == data.Value + commission
      tags == <<<<"tx.type", "Send">>, <<"tx.from", sender>>,
                <<"tx.to", data.To>>, <<"tx.coin", data.Coin>>>>
  IN IF ~CoinExists(ctx, data.Coin) THEN Fail("CoinNotExists", ctx, pool)
     ELSE IF GetBalance(ctx, sender, data.Coin) < data.Value
       THEN Fail("InsufficientFunds", ctx, pool)
     ELSE IF data.Coin # BaseCoin /\ coin.reserve < commissionInBaseCoin
       THEN Fail("CoinReserveNotSufficient", ctx, pool)
     ELSE IF data.Coin # BaseCoin
             /\ ~DefinedSaleAmount(coin.volume, coin.reserve, coin.crr, commissionInBaseCoin)
       THEN Crash(ctx, pool)
     ELSE IF GetBalance(ctx, sender, data.Coin) < totalTxCost
       THEN Fail("InsufficientFunds", ctx, pool)
     ELSE IF ~isCheck
       THEN Done(Gas(tx), tags,
              SendDeliver(ctx, tx, sender, commission, commissionInBaseCoin, totalTxCost),
              pool + commissionInBaseCoin)
     ELSE Done(Gas(tx), tags, ctx, pool)

\* case TypeSend
Send(ctx, pool, isCheck, tx, sender) ==
  LET data == tx.data
      commissionInBaseCoin == CommissionInBaseCoin(tx)
      coin == GetStateCoin(ctx, data.Coin)
      commission ==
        IF data.Coin # BaseCoin
        THEN CalculateSaleAmount(coin.volume, coin.reserve, coin.crr, commissionInBaseCoin)
        ELSE commissionInBaseCoin
      totalTxCost == data.Value + commission
      tags == <<<<"tx.type", "Send">>, <<"tx.from", sender>>,
                <<"tx.to", data.To>>, <<"tx.coin", data.Coin>>>>
  IN IF ~CoinExists(ctx, data.Coin) THEN Fail("CoinNotExists", ctx, pool)
     ELSE IF data.Coin # BaseCoin /\ coin.reserve < commissionInBaseCoin
       THEN Fail("CoinReserveNotSufficient", ctx, pool)
     ELSE IF data.Coin # BaseCoin
             /\ ~DefinedSaleAmount(coin.volume, coin.reserve, coin.crr, commissionInBaseCoin)
       THEN Crash(ctx, pool)
     ELSE IF GetBalance(ctx, sender, data.Coin) < totalTxCost
       THEN Fail("InsufficientFunds", ctx, pool)
     ELSE IF ~isCheck
       THEN Done(Gas(tx), tags,
              SendDeliver(ctx, tx, sender, commission, commissionInBaseCoin, totalTxCost),
              pool + commissionInBaseCoin)
     ELSE Done(Gas(tx), tags, ctx, pool)


\* crypto.Ecrecover(senderAddressHash, data.Proof): the key that signed the
\* proof, when the proof is a signature over the hash of this sender
Ecrecover(sender, proof) ==
  IF proof.over = sender THEN proof.key ELSE "unrelated"

\* faulty variant of RedeemDeliver: the nonce of the issuer of the check is
\* set instead of the nonce of the redeemer
RedeemDeliverIssuerNonce(ctx, tx, sender, decodedCheck, checkSender, commission, commissionInBaseCoin, totalTxCost) ==
  LET c0 == UseCheck(ctx, decodedCheck)
      c1 == IF decodedCheck.Coin # BaseCoin
            THEN SubCoinReserve(SubCoinVolume(c0, decodedCheck.Coin, commission),
                                decodedCheck.Coin, commissionInBaseCoin)
            ELSE c0
      c2 == SubBalance(c1, checkSender, decodedCheck.Coin, totalTxCost)
      c3 == AddBalance(c2, sender, decodedCheck.Coin, decodedCheck.Value)
  IN SetNonce(c3, checkSender, tx.Nonce)

\* faulty variant of RedeemDeliver: the check is not recorded as used
RedeemDeliverForgetsCheck(ctx, tx, sender, decodedCheck, checkSender, commission, commissionInBaseCoin, totalTxCost) ==
  LET c1 == IF decodedCheck.Coin # BaseCoin
            THEN SubCoinReserve(SubCoinVolume(ctx, decodedCheck.Coin, commission),
                                decodedCheck.Coin, commissionInBaseCoin)
            ELSE ctx
      c2 == SubBalance(c1, checkSender, decodedCheck.Coin, totalTxCost)
      c3 == AddBalance(c2, sender, decodedCheck.Coin, decodedCheck.Value)
  IN SetNonce(c3, sender, tx.Nonce)

\* faulty variant of RedeemDeliver: the redeemer is debited instead of the
\* issuer of the check
RedeemDeliverRedeemerPays(ctx, tx, sender, decodedCheck, checkSender, commission, commissionInBaseCoin, totalTxCost) ==
  LET c0 == UseCheck(ctx, decodedCheck)
      c1 == IF decodedCheck.Coin # BaseCoin
            THEN SubCoinReserve(SubCoinVolume(c0, decodedCheck.Coin, commission),
                                decodedCheck.Coin, commissionInBaseCoin)
            ELSE c0
      c2 == SubBalance(c1, sender, decodedCheck.Coin, totalTxCost)
      c3 == AddBalance(c2, sender, decodedCheck.Coin, decodedCheck.Value)
  IN SetNonce(c3, sender, tx.Nonce)

\* the state writes of a delivered RedeemCheck, in the order of the code
RedeemDeliver(ctx, tx, sender, decodedCheck, checkSender, commission, commissionInBaseCoin, totalTxCost) ==
  LET c0 == UseCheck(ctx, decodedCheck)
      c1 == IF decodedCheck.Coin # BaseCoin
            THEN SubCoinReserve(SubCoinVolume(c0, decodedCheck.Coin, commission),
                                decodedCheck.Coin, commissionInBaseCoin)
            ELSE c0
      c2 == SubBalance(c1, checkSender, decodedCheck.Coin, totalTxCost)
      c3 == AddBalance(c2, sender, decodedCheck.Coin, decodedCheck.Value)
  IN SetNonce(c3, sender, tx.Nonce)

\* faulty variant of GasPriceTooHigh: the limit is 2
GasPriceAboveTwo(tx) == tx.GasPrice > 2

\* the gas price test of RedeemCheck: tx.GasPrice.Cmp(big.NewInt(1)) == 1
GasPriceTooHigh(tx) == tx.GasPrice > 1

\* case TypeRedeemCheck
RedeemCheck(ctx, pool, isCheck, tx, sender, currentBlock) ==
  LET data == tx.data
      decodedCheck == data.RawCheck
      checkSender == decodedCheck.issuer
      pub == Ecrecover(sender, data.Proof)
      commissionInBaseCoin == CommissionInBaseCoin(tx)
      coin == GetStateCoin(ctx, decodedCheck.Coin)
      commission ==
        IF decodedCheck.Coin # BaseCoin
        THEN CalculateSaleAmount(coin.volume, coin.reserve, coin.crr, commissionInBaseCoin)
        ELSE commissionInBaseCoin
      totalTxCost == decodedCheck.Value + commission
      tags == <<<<"tx.type", "RedeemCheck">>, <<"tx.from", checkSender>>,
                <<"tx.to", sender>>, <<"tx.coin", decodedCheck.Coin>>>>
  IN IF decodedCheck.decodeErr THEN Fail("DecodeError", ctx, pool)
     ELSE IF decodedCheck.senderErr THEN Fail("DecodeError", ctx, pool)
     ELSE IF ~CoinExists(ctx, decodedCheck.Coin) THEN Fail("CoinNotExists", ctx, pool)
     ELSE IF decodedCheck.DueBlock < currentBlock THEN Fail("CheckExpired", ctx, pool)
     ELSE IF IsCheckUsed(ctx, decodedCheck) THEN Fail("CheckUsed", ctx, pool)
     ELSE IF GasPriceTooHigh(tx) THEN Fail("TooHighGasPrice", ctx, pool)
     ELSE IF decodedCheck.lockErr THEN Fail("DecodeError", ctx, pool)
     ELSE IF data.Proof.recoverErr THEN Fail("DecodeError", ctx, pool)
     ELSE IF decodedCheck.lockPublicKey # pub THEN Fail("CheckInvalidLock", ctx, pool)
     ELSE IF decodedCheck.Coin # BaseCoin
             /\ ~DefinedSaleAmount(coin.volume, coin.reserve, coin.crr, commissionInBaseCoin)
       THEN Crash(ctx, pool)
     ELSE IF GetBalance(ctx, checkSender, decodedCheck.Coin) < totalTxCost
       THEN Fail("InsufficientFunds", ctx, pool)
     ELSE IF ~isCheck
       THEN Done(Gas(tx), tags,
              RedeemDeliver(ctx, tx, sender, decodedCheck, checkSender, commission,
                            commissionInBaseCoin, totalTxCost),
              pool + commissionInBaseCoin)
     ELSE Done(Gas(tx), tags, ctx, pool)

\* the commission in the coin the fee is paid in: commissionInBaseCoin for
\* the base coin, else formula.CalculateSaleAmount on the coin's entry
FeeInCoin(ctx, symbol, commissionInBaseCoin) ==
  IF symbol # BaseCoin
  THEN CalculateSaleAmount(GetStateCoin(ctx, symbol).volume,
                           GetStateCoin(ctx, symbol).reserve,
                           GetStateCoin(ctx, symbol).crr, commissionInBaseCoin)
  ELSE commissionInBaseCoin

\* lines 570-579: the first writes of a delivered SellCoin
SellCoinFee(ctx, data, sender, commission, commissionInBaseCoin) ==
  IF data.CoinToSell # BaseCoin
  THEN SubCoinReserve(
         SubCoinVolume(
           SubBalance(ctx, sender, data.CoinToSell, data.ValueToSell + commission),
           data.CoinToSell, commission),
         data.CoinToSell, commissionInBaseCoin)
  ELSE SubBalance(ctx, sender, data.CoinToSell, data.ValueToSell + commission)

\* basecoinValue (line 605), also the value of a sale for base coin (line 595)
SellCoinBase(c1, data) ==
  CalculateSaleReturn(GetStateCoin(c1, data.CoinToSell).volume,
                      GetStateCoin(c1, data.CoinToSell).reserve,
                      GetStateCoin(c1, data.CoinToSell).crr, data.ValueToSell)

\* CalculatePurchaseReturn on the entry of CoinToBuy (lines 586, 606)
SellCoinBought(c1, data, deposit) ==
  CalculatePurchaseReturn(GetStateCoin(c1, data.CoinToBuy).volume,
                          GetStateCoin(c1, data.CoinToBuy).reserve,
                          GetStateCoin(c1, data.CoinToBuy).crr, deposit)

\* value, lines 583-615
SellCoinValue(c1, data) ==
  IF data.CoinToSell = BaseCoin THEN SellCoinBought(c1, data, data.ValueToSell)
  ELSE IF data.CoinToBuy = BaseCoin THEN SellCoinBase(c1, data)
  ELSE SellCoinBought(c1, data, SellCoinBase(c1, data))

\* the formulas of lines 583-615 are evaluated inside their domain
SellCoinDefined(c1, data) ==
  IF data.CoinToSell = BaseCoin
  THEN DefinedPurchaseReturn(GetStateCoin(c1, data.CoinToBuy).volume,
                             GetStateCoin(c1, data.CoinToBuy).reserve,
                             GetStateCoin(c1, data.CoinToBuy).crr, data.ValueToSell)
  ELSE /\ DefinedSaleReturn(GetStateCoin(c1, data.CoinToSell).volume,
                            GetStateCoin(c1, data.CoinToSell).reserve,
                            GetStateCoin(c1, data.CoinToSell).crr, data.ValueToSell)
       /\ \/ data.CoinToBuy = BaseCoin
          \/ DefinedPurchaseReturn(GetStateCoin(c1, data.CoinToBuy).volume,
                                   GetStateCoin(c1, data.CoinToBuy).reserve,
                                   GetStateCoin(c1, data.CoinToBuy).crr,
                                   SellCoinBase(c1, data))

\* lines 588-620: the writes of the trade, the credit and the nonce
SellCoinTrade(c1, tx, sender, basecoinValue, value) ==
  SetNonce(
    AddBalance(
      IF tx.data.CoinToSell = BaseCoin
        THEN AddCoinReserve(AddCoinVolume(c1, tx.data.CoinToBuy, value),
                            tx.data.CoinToBuy, tx.data.ValueToSell)
      ELSE IF tx.data.CoinToBuy = BaseCoin
        THEN SubCoinReserve(SubCoinVolume(c1, tx.data.CoinToSell, tx.data.ValueToSell),
                            tx.data.CoinToSell, value)
      ELSE SubCoinReserve(
             AddCoinReserve(
               SubCoinVolume(AddCoinVolume(c1, tx.data.CoinToBuy, value),
                             tx.data.CoinToSell, tx.data.ValueToSell),
               tx.data.CoinToBuy, basecoinValue),
             tx.data.CoinToSell, basecoinValue),
      sender, tx.data.CoinToBuy, value),
    sender, tx.Nonce)

\* the tags of SellCoin and BuyCoin
ConvertTags(tx, sender, value) ==
  <<<<"tx.type", tx.Type>>, <<"tx.from", sender>>,
    <<"tx.coin_to_buy", tx.data.CoinToBuy>>,
    <<"tx.coin_to_sell", tx.data.CoinToSell>>, <<"tx.return", value>>>>

\* faulty variant of SellCoinFinish: the trade is applied in check mode too
SellCoinFinishAlways(c1, pool1, isCheck, tx, sender, basecoinValue, value) ==
  Done(Gas(tx), ConvertTags(tx, sender, value),
       SellCoinTrade(c1, tx, sender, basecoinValue, value),
       pool1)

\* lines 617-635
SellCoinFinish(c1, pool1, isCheck, tx, sender, basecoinValue, value) ==
  Done(Gas(tx), ConvertTags(tx, sender, value),
       IF isCheck THEN c1 ELSE SellCoinTrade(c1, tx, sender, basecoinValue, value),
       pool1)

\* lines 581-635, from c1 and pool1, the state and the pool after the first
\* writes: the coin entries are read from c1
SellCoinConvert(c1, pool1, isCheck, tx, sender) ==
  IF ~SellCoinDefined(c1, tx.data) THEN Crash(c1, pool1)
  ELSE SellCoinFinish(c1, pool1, isCheck, tx, sender,
                      SellCoinBase(c1, tx.data), SellCoinValue(c1, tx.data))

\* faulty variant of SellCoinPay: the fee is written before the funds are
\* compared with the cost
SellCoinPayWritesFirst(ctx, pool, isCheck, tx, sender, commission, commissionInBaseCoin) ==
  IF GetBalance(ctx, sender, tx.data.CoinToSell) < tx.data.ValueToSell + commission
    THEN Fail("InsufficientFunds",
              SellCoinFee(ctx, tx.data, sender, commission, commissionInBaseCoin),
              pool + commissionInBaseCoin)
  ELSE IF isCheck THEN SellCoinConvert(ctx, pool, isCheck, tx, sender)
  ELSE SellCoinConvert(
         SellCoinFee(ctx, tx.data, sender, commission, commissionInBaseCoin),
         pool + commissionInBaseCoin, isCheck, tx, sender)

\* lines 560-579
SellCoinPay(ctx, pool, isCheck, tx, sender, commission, commissionInBaseCoin) ==
  IF GetBalance(ctx, sender, tx.data.CoinToSell) < tx.data.ValueToSell + commission
    THEN Fail("InsufficientFunds", ctx, pool)
  ELSE IF isCheck THEN SellCoinConvert(ctx, pool, isCheck, tx, sender)
  ELSE SellCoinConvert(
         SellCoinFee(ctx, tx.data, sender, commission, commissionInBaseCoin),
         pool + commissionInBaseCoin, isCheck, tx, sender)

\* lines 548-558 of SellCoin and 662-672 of BuyCoin: the fee engine on
\* CoinToSell; "ok" when the commission can be computed
ConvertFeeCheck(ctx, data, commissionInBaseCoin) ==
  IF data.CoinToSell = BaseCoin THEN "ok"
  ELSE IF GetStateCoin(ctx, data.CoinToSell).reserve < commissionInBaseCoin
    THEN "CoinReserveNotSufficient"
  ELSE IF ~DefinedSaleAmount(GetStateCoin(ctx, data.CoinToSell).volume,
                             GetStateCoin(ctx, data.CoinToSell).reserve,
                             GetStateCoin(ctx, data.CoinToSell).crr, commissionInBaseCoin)
    THEN "Panic"
  ELSE "ok"

\* case TypeSellCoin
SellCoin(ctx, pool, isCheck, tx, sender) ==
  IF tx.data.CoinToSell = tx.data.CoinToBuy THEN Fail("CrossConvert", ctx, pool)
  ELSE IF ~CoinExists(ctx, tx.data.CoinToSell) THEN Fail("CoinNotExists", ctx, pool)
  ELSE IF ~CoinExists(ctx, tx.data.CoinToBuy) THEN Fail("CoinNotExists", ctx, pool)
  ELSE IF ConvertFeeCheck(ctx, tx.data, CommissionInBaseCoin(tx)) = "CoinReserveNotSufficient"
    THEN Fail("CoinReserveNotSufficient", ctx, pool)
  ELSE IF ConvertFeeCheck(ctx, tx.data, CommissionInBaseCoin(tx)) = "Panic"
    THEN Crash(ctx, pool)
  ELSE SellCoinPay(ctx, pool, isCheck, tx, sender,
                   FeeInCoin(ctx, tx.data.CoinToSell, CommissionInBaseCoin(tx)),
                   CommissionInBaseCoin(tx))

\* baseCoinNeeded (line 714), also the value of a purchase with base coin
\* (line 679)
BuyCoinBase(ctx, data) ==
  CalculatePurchaseAmount(GetStateCoin(ctx, data.CoinToBuy).volume,
                          GetStateCoin(ctx, data.CoinToBuy).reserve,
                          GetStateCoin(ctx, data.CoinToBuy).crr, data.ValueToBuy)

\* CalculateSaleAmount on the entry of CoinToSell (lines 696, 715)
BuyCoinSold(ctx, data, wanted) ==
  CalculateSaleAmount(GetStateCoin(ctx, data.CoinToSell).volume,
                      GetStateCoin(ctx, data.CoinToSell).reserve,
                      GetStateCoin(ctx, data.CoinToSell).crr, wanted)

\* value, lines 676-715
BuyCoinValue(ctx, data) ==
  IF data.CoinToSell = BaseCoin THEN BuyCoinBase(ctx, data)
  ELSE IF data.CoinToBuy = BaseCoin THEN BuyCoinSold(ctx, data, data.ValueToBuy)
  ELSE BuyCoinSold(ctx, data, BuyCoinBase(ctx, data))

\* the formulas of lines 676-715 are evaluated inside their domain
BuyCoinDefined(ctx, data) ==
  /\ \/ data.CoinToBuy = BaseCoin
     \/ DefinedPurchaseAmount(GetStateCoin(ctx, data.CoinToBuy).volume,
                              GetStateCoin(ctx, data.CoinToBuy).reserve,
                              GetStateCoin(ctx, data.CoinToBuy).crr, data.ValueToBuy)
  /\ \/ data.CoinToSell = BaseCoin
     \/ DefinedSaleAmount(GetStateCoin(ctx, data.CoinToSell).volume,
                          GetStateCoin(ctx, data.CoinToSell).reserve,
                          GetStateCoin(ctx, data.CoinToSell).crr,
                          IF data.CoinToBuy = BaseCoin THEN data.ValueToBuy
                          ELSE BuyCoinBase(ctx, data))

\* lines 688-732: the writes of the trade
BuyCoinTrade(ctx, data, sender, baseCoinNeeded, value) ==
  IF data.CoinToSell = BaseCoin
    THEN AddCoinReserve(
           AddCoinVolume(SubBalance(ctx, sender, data.CoinToSell, value),
                         data.CoinToBuy, data.ValueToBuy),
           data.CoinToBuy, value)
  ELSE IF data.CoinToBuy = BaseCoin
    THEN SubCoinReserve(
           SubCoinVolume(SubBalance(ctx, sender, data.CoinToSell, value),
                         data.CoinToSell, value),
           data.CoinToSell, data.ValueToBuy)
  ELSE SubCoinReserve(
         AddCoinReserve(
           SubCoinVolume(
             AddCoinVolume(SubBalance(ctx, sender, data.CoinToSell, value),
                           data.CoinToBuy, data.ValueToBuy),
             data.CoinToSell, value),
           data.CoinToBuy, baseCoinNeeded),
         data.CoinToSell, baseCoinNeeded)

\* lines 735-747: the writes of the commission, the credit and the nonce
BuyCoinFee(c1, tx, sender, commission, commissionInBaseCoin, value) ==
  SetNonce(
    AddBalance(
      IF tx.data.CoinToSell # BaseCoin
      THEN SubCoinReserve(
             SubCoinVolume(SubBalance(c1, sender, tx.data.CoinToSell, commission),
                           tx.data.CoinToSell, commission),
             tx.data.CoinToSell, commissionInBaseCoin)
      ELSE SubBalance(c1, sender, tx.data.CoinToSell, commission),
      sender, tx.data.CoinToBuy, value),
    sender, tx.Nonce)

\* faulty variant of BuyCoinFinish: the sender need only hold the value sold,
\* not the commission as well
BuyCoinFinishValueOnly(ctx, pool, isCheck, tx, sender, commission, commissionInBaseCoin, baseCoinNeeded, value) ==
  IF GetBalance(ctx, sender, tx.data.CoinToSell) < value
    THEN Fail("InsufficientFunds", ctx, pool)
  ELSE IF ~isCheck
    THEN Done(Gas(tx), ConvertTags(tx, sender, value),
              BuyCoinFee(BuyCoinTrade(ctx, tx.data, sender, baseCoinNeeded, value),
                         tx, sender, commission, commissionInBaseCoin, value),
              pool + commissionInBaseCoin)
  ELSE Done(Gas(tx), ConvertTags(tx, sender, value), ctx, pool)

\* lines 681-762, with the computed amounts
BuyCoinFinish(ctx, pool, isCheck, tx, sender, commission, commissionInBaseCoin, baseCoinNeeded, value) ==
  IF GetBalance(ctx, sender, tx.data.CoinToSell) < value + commission
    THEN Fail("InsufficientFunds", ctx, pool)
  ELSE IF ~isCheck
    THEN Done(Gas(tx), ConvertTags(tx, sender, value),
              BuyCoinFee(BuyCoinTrade(ctx, tx.data, sender, baseCoinNeeded, value),
                         tx, sender, commission, commissionInBaseCoin, value),
              pool + commissionInBaseCoin)
  ELSE Done(Gas(tx), ConvertTags(tx, sender, value), ctx, pool)

\* lines 674-733
BuyCoinPay(ctx, pool, isCheck, tx, sender, commission, commissionInBaseCoin) ==
  IF ~BuyCoinDefined(ctx, tx.data) THEN Crash(ctx, pool)
  ELSE BuyCoinFinish(ctx, pool, isCheck, tx, sender, commission, commissionInBaseCoin,
                     IF tx.data.CoinToBuy = BaseCoin THEN 0 ELSE BuyCoinBase(ctx, tx.data),
                     BuyCoinValue(ctx, tx.data))

\* case TypeBuyCoin
BuyCoin(ctx, pool, isCheck, tx, sender) ==
  IF tx.data.CoinToSell = tx.data.CoinToBuy THEN Fail("CrossConvert", ctx, pool)
  ELSE IF ~CoinExists(ctx, tx.data.CoinToSell) THEN Fail("CoinNotExists", ctx, pool)
  ELSE IF ~CoinExists(ctx, tx.data.CoinToBuy) THEN Fail("CoinNotExists", ctx, pool)
  ELSE IF ConvertFeeCheck(ctx, tx.data, CommissionInBaseCoin(tx)) = "CoinReserveNotSufficient"
    THEN Fail("CoinReserveNotSufficient", ctx, pool)
  ELSE IF ConvertFeeCheck(ctx, tx.data, CommissionInBaseCoin(tx)) = "Panic"
    THEN Crash(ctx, pool)
  ELSE BuyCoinPay(ctx, pool, isCheck, tx, sender,
                  FeeInCoin(ctx, tx.data.CoinToSell, CommissionInBaseCoin(tx)),
                  CommissionInBaseCoin(tx))

\* the additional price of a symbol, in whole coins (10^18 pip), by its
\* number of letters
SymbolPrice(lettersCount) ==
  CASE lettersCount = 3 -> 1000000
    [] lettersCount = 4 -> 100000
    [] lettersCount = 5 -> 10000
    [] lettersCount = 6 -> 1000
    [] lettersCount = 7 -> 100
    [] lettersCount = 8 -> 10
    [] OTHER -> 0

\* faulty variant of CreateCoinTx: the creator is credited the initial reserve
\* of the new coin instead of its initial amount
CreateCoinTxCreditsReserve(ctx, pool, isCheck, tx, sender) ==
  LET data == tx.data
      low == CommissionInBaseCoin(tx)
      price == SymbolPrice(Len(SymbolString(data.Symbol)))
      commission == low + GigaUnit * price
      totalTxCost == data.InitialReserve + commission
      balance == GetBalance(ctx, sender, BaseCoin)
      tags == <<<<"tx.type", "CreateCoin">>, <<"tx.from", sender>>,
                <<"tx.coin", data.Symbol>>>>
  IN IF ~allowedCoinSymbols(SymbolString(data.Symbol)) THEN Fail("InvalidCoinSymbol", ctx, pool)
     ELSE IF (balance - data.InitialReserve - low) \div GigaUnit < price
       THEN Fail("InsufficientFunds", ctx, pool)
     ELSE IF CoinExists(ctx, data.Symbol) THEN Fail("CoinAlreadyExists", ctx, pool)
     ELSE IF data.ConstantReserveRatio < 10 \/ data.ConstantReserveRatio > 100
       THEN Fail("WrongCrr", ctx, pool)
     ELSE IF ~isCheck
       THEN Done(Gas(tx), tags,
              SetNonce(
                AddBalance(
                  CreateCoin(SubBalance(ctx, sender, BaseCoin, totalTxCost),
                             data.Symbol, data.Name, data.InitialAmount,
                             data.ConstantReserveRatio, data.InitialReserve, sender),
                  sender, data.Symbol, data.InitialReserve),
                sender, tx.Nonce),
              pool + commission)
     ELSE Done(Gas(tx), tags, ctx, pool)

\* case TypeCreateCoin.  The commission is gasPrice * gas * 10^9 pip plus
\* price * 10^18 pip, that is low + price * GigaUnit units; the comparison
\* balance < InitialReserve + commission is made without forming the product.
CreateCoinTx(ctx, pool, isCheck, tx, sender) ==
  LET data == tx.data
      low == CommissionInBaseCoin(tx)
      price == SymbolPrice(Len(SymbolString(data.Symbol)))
      commission == low + GigaUnit * price
      totalTxCost == data.InitialReserve + commission
      balance == GetBalance(ctx, sender, BaseCoin)
      tags == <<<<"tx.type", "CreateCoin">>, <<"tx.from", sender>>,
                <<"tx.coin", data.Symbol>>>>
  IN IF ~allowedCoinSymbols(SymbolString(data.Symbol)) THEN Fail("InvalidCoinSymbol", ctx, pool)
     ELSE IF (balance - data.InitialReserve - low) \div GigaUnit < price
       THEN Fail("InsufficientFunds", ctx, pool)
     ELSE IF CoinExists(ctx, data.Symbol) THEN Fail("CoinAlreadyExists", ctx, pool)
     ELSE IF data.ConstantReserveRatio < 10 \/ data.ConstantReserveRatio > 100
       THEN Fail("WrongCrr", ctx, pool)
     ELSE IF ~isCheck
       THEN Done(Gas(tx), tags,
              SetNonce(
                AddBalance(
                  CreateCoin(SubBalance(ctx, sender, BaseCoin, totalTxCost),
                             data.Symbol, data.Name, data.InitialAmount,
                             data.ConstantReserveRatio, data.InitialReserve, sender),
                  sender, data.Symbol, data.InitialAmount),
                sender, tx.Nonce),
              pool + commission)
     ELSE Done(Gas(tx), tags, ctx, pool)

\* ------------------------------------------------------------------ RunTx

\* faulty variant of UnexpectedNonce: only a nonce beyond the expected one is
\* refused
UnexpectedNonceAhead(ctx, isCheck, tx) ==
  ~isCheck /\ GetNonce(ctx, tx.sender) + 1 < tx.Nonce

\* lines 91-97: the nonce is compared in deliver mode only
UnexpectedNonce(ctx, isCheck, tx) ==
  ~isCheck /\ GetNonce(ctx, tx.sender) + 1 # tx.Nonce

RunTx(ctx, isCheck, tx, pool, currentBlock) ==
  LET sender == tx.sender
  IN IF tx.rawLen > maxTxLength THEN Fail("TxTooLarge", ctx, pool)
     ELSE IF tx.decodeErr THEN Fail("DecodeError", ctx, pool)
     ELSE IF tx.payloadLen > maxPayloadLength THEN Fail("TxPayloadTooLarge", ctx, pool)
     ELSE IF tx.serviceDataLen > maxServiceDataLength
       THEN Fail("TxServiceDataTooLarge", ctx, pool)
     ELSE IF tx.senderErr THEN Fail("DecodeError", ctx, pool)
     ELSE IF UnexpectedNonce(ctx, isCheck, tx) THEN Fail("WrongNonce", ctx, pool)
     ELSE CASE tx.Type = "DeclareCandidacy" ->
                 DeclareCandidacy(ctx, pool, isCheck, tx, sender, currentBlock)
            [] tx.Type = "SetCandidateOnline" -> SetCandidateOn(ctx, pool, isCheck, tx, sender)
            [] tx.Type = "SetCandidateOffline" -> SetCandidateOff(ctx, pool, isCheck, tx, sender)
            [] tx.Type = "Delegate" -> DelegateTx(ctx, pool, isCheck, tx, sender)
            [] tx.Type = "Unbond" -> Unbond(ctx, pool, isCheck, tx, sender, currentBlock)
            [] tx.Type = "Send" -> Send(ctx, pool, isCheck, tx, sender)
            [] tx.Type = "RedeemCheck" ->
                 RedeemCheck(ctx, pool, isCheck, tx, sender, currentBlock)
            [] tx.Type = "SellCoin" -> SellCoin(ctx, pool, isCheck, tx, sender)
            [] tx.Type = "BuyCoin" -> BuyCoin(ctx, pool, isCheck, tx, sender)
            [] tx.Type = "CreateCoin" -> CreateCoinTx(ctx, pool, isCheck, tx, sender)
            [] OTHER -> Fail("UnknownTransactionType", ctx, pool)


\* ----------------------------------------------------------- the inputs

\* a decoded transaction whose envelope passes the size and decode checks
Tx(type, sender, nonce, gasPrice, data) ==
  [Type |-> type, Nonce |-> nonce, GasPrice |-> gasPrice, gas |-> 1,
   sender |-> sender, rawLen |-> maxTxLength, decodeErr |-> FALSE,
   payloadLen |-> maxPayloadLength, serviceDataLen |-> maxServiceDataLength,
   senderErr |-> FALSE, data |-> data]

PubKey(id) == [id |-> id, len |-> 32]

GasPrices == {1, 2}
Values == {1, 5}

\* a check: issuer is the address recovered from the issuer's signature
Check(id, issuer, coin, value, dueBlock) ==
  [id |-> id, decodeErr |-> FALSE, senderErr |-> FALSE, issuer |-> issuer,
   Coin |-> coin, Value |-> value, DueBlock |-> dueBlock, lockErr |-> FALSE,
   lockPublicKey |-> "lock"]

GoodChecks ==
  {Check("k1", "a1", BaseCoin, 1, CurrentBlock),
   Check("k2", "a1", CoinC, 1, CurrentBlock + 1),
   Check("k3", "a2", BaseCoin, 5, CurrentBlock)}

BadChecks ==
  {Check("k4", "a1", BaseCoin, 1, CurrentBlock - 1),
   Check("k5", "a1", CoinN, 1, CurrentBlock),
   [Check("k6", "a1", BaseCoin, 1, CurrentBlock) EXCEPT !.decodeErr = TRUE],
   [Check("k7", "a1", BaseCoin, 1, CurrentBlock) EXCEPT !.senderErr = TRUE],
   [Check("k8", "a1", BaseCoin, 1, CurrentBlock) EXCEPT !.lockErr = TRUE]}

\* a proof: the signature of key over the hash of the address over
Proof(key, over) == [recoverErr |-> FALSE, key |-> key, over |-> over]

\* ------------------------------------------------------------------ Init

Genesis ==
  [balance |-> [k \in Addr \X Syms |->
                  IF k = <<"a1", BaseCoin>> THEN GenesisA1
                  ELSE IF k = <<"a2", BaseCoin>> THEN GenesisA2 ELSE 0],
   nonce |-> [a \in Addr |-> 0],
   coins |-> [c \in RegSyms |->
                [exists |-> FALSE, name |-> "", volume |-> 0, reserve |-> 0,
                 crr |-> 0, creator |-> "none"]],
   candidates |-> [p \in PubKeyIds |-> NoCandidate],
   frozenFunds |-> <<>>,
   usedChecks |-> {}]

\* the two transactions that lead from genesis to the initial state
SetupCreateCoin ==
  Tx("CreateCoin", "a1", 1, 1,
     [Name |-> "coin", Symbol |-> CoinC, InitialAmount |-> 8,
      InitialReserve |-> 2, ConstantReserveRatio |-> 50])

SetupDeclare ==
  Tx("DeclareCandidacy", "a1", 2, 1,
     [Address |-> "a1", PubKey |-> PubKey("P1"), Commission |-> 10,
      Coin |-> BaseCoin, Stake |-> 2])

InitialContext ==
  RunTx(RunTx(Genesis, FALSE, SetupCreateCoin, 0, CurrentBlock).context,
        FALSE, SetupDeclare, 0, CurrentBlock).context

\* no call is in flight
NoCall ==
  [called |-> FALSE, isCheck |-> TRUE, tx |-> SetupDeclare,
   resp |-> Response("OK", 0, <<>>), context |-> InitialContext, rewardPull |-> 0,
   accepted |-> {}, redeemed |-> {}]

Init ==
  /\ context = InitialContext
  /\ rewardPull = 0
  /\ last = NoCall
  /\ accepted = {<<"a1", 1>>, <<"a1", 2>>}
  /\ redeemed = {}
  /\ steps = 0

\* --------------------------------------------------------------- actions

\* RunTx may be called: no response is in flight and the budget of calls is
\* not used up
Idle == ~last.called /\ steps < MaxSteps

\* one call of RunTx.  last keeps the call, its response and what the call
\* started from; accepted collects the (sender, nonce) pairs of the delivered
\* transactions that returned OK, redeemed the checks of the delivered
\* RedeemCheck transactions that returned OK.
Call(isCheck, tx) ==
  LET r == RunTx(context, isCheck, tx, rewardPull, CurrentBlock)
      applied == ~isCheck /\ r.resp.Code = "OK"
  IN /\ context' = r.context
     /\ rewardPull' = r.rewardPull
     /\ last' = [called |-> TRUE, isCheck |-> isCheck, tx |-> tx, resp |-> r.resp,
                 context |-> context, rewardPull |-> rewardPull,
                 accepted |-> accepted, redeemed |-> redeemed]
     /\ accepted' = IF applied THEN accepted \cup {<<tx.sender, tx.Nonce>>}
                    ELSE accepted
     /\ redeemed' = IF applied /\ tx.Type = "RedeemCheck"
                    THEN redeemed \cup {tx.data.RawCheck}
                    ELSE redeemed
     /\ steps' = steps + 1

\* the nonce the state expects of the next transaction of sender
NextNonce(sender) == GetNonce(context, sender) + 1

RunDeclareCandidacy ==
  /\ Idle
  /\ \E isCheck \in BOOLEAN, sender \in Addr, address \in Addr, coin \in Syms,
        c \in {<<PubKey("P1"), 100>>, <<PubKey("P2"), 100>>, <<PubKey("P2"), 101>>,
               <<[id |-> "P2", len |-> 31], 100>>} :
       Call(isCheck, Tx("DeclareCandidacy", sender, NextNonce(sender), 1,
                        [Address |-> address, PubKey |-> c[1], Commission |-> c[2],
                         Coin |-> coin, Stake |-> 1]))

RunSetCandidateOnline ==
  /\ Idle
  /\ \E isCheck \in BOOLEAN, sender \in Addr, gasPrice \in GasPrices, id \in PubKeyIds :
       Call(isCheck, Tx("SetCandidateOnline", sender, NextNonce(sender), gasPrice,
                        [PubKey |-> PubKey(id)]))

RunSetCandidateOffline ==
  /\ Idle
  /\ \E isCheck \in BOOLEAN, sender \in Addr, gasPrice \in GasPrices, id \in PubKeyIds :
       Call(isCheck, Tx("SetCandidateOffline", sender, NextNonce(sender), gasPrice,
                        [PubKey |-> PubKey(id)]))

RunDelegate ==
  /\ Idle
  /\ \E isCheck \in BOOLEAN, sender \in Addr, gasPrice \in GasPrices,
        id \in PubKeyIds, coin \in Syms :
       Call(isCheck, Tx("Delegate", sender, NextNonce(sender), gasPrice,
                        [PubKey |-> PubKey(id), Coin |-> coin, Stake |-> 1]))

RunUnbond ==
  /\ Idle
  /\ \E isCheck \in BOOLEAN, sender \in Addr, id \in PubKeyIds,
        coin \in Syms, value \in {1, 3} :
       Call(isCheck, Tx("Unbond", sender, NextNonce(sender), 1,
                        [PubKey |-> PubKey(id), Coin |-> coin, Value |-> value]))

RunSend ==
  /\ Idle
  /\ \E isCheck \in BOOLEAN, sender \in Addr, gasPrice \in GasPrices \cup {3},
        to \in Addr, coin \in Syms, value \in Values :
       Call(isCheck, Tx("Send", sender, NextNonce(sender), gasPrice,
                        [Coin |-> coin, To |-> to, Value |-> value]))

RunRedeemCheck ==
  /\ Idle
  /\ \E isCheck \in BOOLEAN, sender \in Addr :
       \/ \E check \in GoodChecks, gasPrice \in {0, 1, 2} :
            Call(isCheck, Tx("RedeemCheck", sender, NextNonce(sender), gasPrice,
                             [RawCheck |-> check, Proof |-> Proof("lock", sender)]))
       \/ \E check \in BadChecks :
            Call(isCheck, Tx("RedeemCheck", sender, NextNonce(sender), 1,
                             [RawCheck |-> check, Proof |-> Proof("lock", sender)]))
       \/ \E proof \in {Proof("lock", "a1"), Proof("other", sender),
                        [Proof("lock", sender) EXCEPT !.recoverErr = TRUE]} :
            Call(isCheck, Tx("RedeemCheck", sender, NextNonce(sender), 1,
                             [RawCheck |-> Check("k1", "a1", BaseCoin, 1, CurrentBlock),
                              Proof |-> proof]))

RunSellCoin ==
  /\ Idle
  /\ \E isCheck \in BOOLEAN, sender \in Addr, sell \in Syms, buy \in Syms,
        value \in {1, 3} :
       Call(isCheck, Tx("SellCoin", sender, NextNonce(sender), 1,
                        [CoinToSell |-> sell, ValueToSell |-> value, CoinToBuy |-> buy]))

RunBuyCoin ==
  /\ Idle
  /\ \E isCheck \in BOOLEAN, sender \in Addr, sell \in Syms, buy \in Syms,
        value \in {1, 3} :
       Call(isCheck, Tx("BuyCoin", sender, NextNonce(sender), 1,
                        [CoinToSell |-> sell, CoinToBuy |-> buy, ValueToBuy |-> value]))

RunCreateCoin ==
  /\ Idle
  /\ \E isCheck \in BOOLEAN, sender \in Addr,
        c \in ({CoinN, CoinC, CoinBad, CoinShort} \X {50} \X {1})
               \cup ({CoinN} \X {9, 100, 101} \X {1})
               \cup {<<CoinN, 50, 4>>, <<CoinN, 50, 0>>} :
       Call(isCheck, Tx("CreateCoin", sender, NextNonce(sender), 1,
                        [Name |-> "coin", Symbol |-> c[1], InitialAmount |-> 4,
                         InitialReserve |-> c[3], ConstantReserveRatio |-> c[2]]))

\* transactions stopped by the envelope checks, or of no known type
RunMalformed ==
  /\ Idle
  /\ \E isCheck \in BOOLEAN, sender \in Addr :
       LET tx == Tx("Send", sender, NextNonce(sender), 1,
                    [Coin |-> BaseCoin, To |-> "a2", Value |-> 1])
       IN \E bad \in {[tx EXCEPT !.rawLen = maxTxLength + 1],
                      [tx EXCEPT !.decodeErr = TRUE],
                      [tx EXCEPT !.payloadLen = maxPayloadLength + 1],
                      [tx EXCEPT !.serviceDataLen = maxServiceDataLength + 1],
                      [tx EXCEPT !.senderErr = TRUE],
                      [tx EXCEPT !.Type = "Unknown"]} :
            Call(isCheck, bad)

\* transactions whose nonce is not the expected one: the nonce of the
\* sender's last accepted transaction, or one too far ahead
RunWrongNonce ==
  /\ Idle
  /\ \E isCheck \in BOOLEAN, sender \in Addr :
     \E nonce \in {GetNonce(context, sender), GetNonce(context, sender) + 2} :
       \/ Call(isCheck, Tx("Send", sender, nonce, 1,
                           [Coin |-> BaseCoin, To |-> "a2", Value |-> 1]))
       \/ Call(isCheck, Tx("RedeemCheck", sender, nonce, 1,
                           [RawCheck |-> Check("k1", "a1", BaseCoin, 1, CurrentBlock),
                            Proof |-> Proof("lock", sender)]))
       \/ Call(isCheck, Tx("SetCandidateOnline", sender, nonce, 1,
                           [PubKey |-> PubKey("P1")]))

\* the response is handed to the caller (a call that crashed returns none)
Respond ==
  /\ last.called
  /\ last.resp.returned
  /\ last' = NoCall
  /\ UNCHANGED <<context, rewardPull, accepted, redeemed, steps>>

\* the transaction just executed is submitted again, unchanged
RunReplay ==
  /\ last.called
  /\ last.resp.returned
  /\ steps < MaxSteps
  /\ \E isCheck \in BOOLEAN : Call(isCheck, last.tx)

Next ==
  \/ RunDeclareCandidacy
  \/ RunSetCandidateOnline
  \/ RunSetCandidateOffline
  \/ RunDelegate
  \/ RunUnbond
  \/ RunSend
  \/ RunRedeemCheck
  \/ RunSellCoin
  \/ RunBuyCoin
  \/ RunCreateCoin
  \/ RunMalformed
  \/ RunWrongNonce
  \/ RunReplay
  \/ Respond

Spec == Init /\ [][Next]_vars


\* ---------------------------------------------------- the calls, observed

\* a call was made in deliver mode, resp. in check mode
Delivered == last.called /\ ~last.isCheck
Checked == last.called /\ last.isCheck

\* the call returned the code
Returned(code) == last.called /\ last.resp.returned /\ last.resp.Code = code

\* the call was a delivered transaction of the type and returned OK
Applied(type) == Delivered /\ Returned("OK") /\ last.tx.Type = type

\* state, reward pool and nonces are what they were before the call
Untouched == context = last.context /\ rewardPull = last.rewardPull

\* the transaction of the call passes the size, decode and signature checks
EnvelopeOk ==
  /\ last.tx.rawLen <= maxTxLength
  /\ ~last.tx.decodeErr
  /\ last.tx.payloadLen <= maxPayloadLength
  /\ last.tx.serviceDataLen <= maxServiceDataLength
  /\ ~last.tx.senderErr

\* the nonce of the transaction is the one the state before the call expected
NonceOk == last.tx.Nonce = last.context.nonce[last.tx.sender] + 1

\* changes made by the call
DeltaBalance(address, coin) ==
  context.balance[<<address, coin>>] - last.context.balance[<<address, coin>>]
DeltaVolume(coin) == context.coins[coin].volume - last.context.coins[coin].volume
DeltaReserve(coin) == context.coins[coin].reserve - last.context.coins[coin].reserve
DeltaPool == rewardPull - last.rewardPull

\* gas_price * gas * 10^9 pip of the transaction of the call
LastCommissionInBase == last.tx.GasPrice * last.tx.gas * CommissionMultiplier

\* ------------------------------------------------------------ the claims

\* C1: a call in check mode leaves the state (balances, coins, candidates and
\* stakes, frozen funds, used checks, nonces) and the reward pool as they
\* were, whatever it answers.
C1_CheckModeChangesNothing == Checked => Untouched

\* C1 witness: a check-mode SellCoin answered OK.
C1_Witness == Checked /\ Returned("OK") /\ last.tx.Type = "SellCoin"

\* C2: a delivered call that returns a code other than OK leaves the state,
\* the reward pool and the nonces as they were.
C2_ErrorChangesNothing ==
  (Delivered /\ last.resp.returned /\ last.resp.Code # "OK") => Untouched

\* C2 witness: a delivered SellCoin of a registered coin was refused for
\* insufficient funds.
C2_Witness ==
  /\ Delivered
  /\ Returned("InsufficientFunds")
  /\ last.tx.Type = "SellCoin"
  /\ last.tx.data.CoinToSell = CoinC

\* C3: a delivered call that returns OK raises the nonce of the sender of the
\* transaction (the redeemer of a RedeemCheck) by exactly one and leaves every
\* other nonce as it was.
C3_NonceBumpedByOne ==
  (Delivered /\ Returned("OK")) =>
    \A a \in Addr :
      context.nonce[a] =
        IF a = last.tx.sender THEN last.context.nonce[a] + 1 ELSE last.context.nonce[a]

\* C3 witness: a check issued by another account was redeemed.
C3_Witness ==
  Applied("RedeemCheck") /\ last.tx.data.RawCheck.issuer # last.tx.sender

\* C4: in deliver mode a transaction whose nonce is not nonce(sender) + 1 is
\* answered WrongNonce whatever its type; no (sender, nonce) pair is accepted
\* a second time; in check mode the nonce is never the reason of a refusal.
C4_NonceOnce ==
  /\ (Delivered /\ EnvelopeOk /\ ~NonceOk) => (Returned("WrongNonce") /\ Untouched)
  /\ (Delivered /\ Returned("OK")) => <<last.tx.sender, last.tx.Nonce>> \notin last.accepted
  /\ Checked => ~Returned("WrongNonce")

\* C4 witness: a transaction with the sender and nonce of an accepted one was
\* delivered again and refused.
C4_Witness ==
  /\ Delivered
  /\ Returned("WrongNonce")
  /\ <<last.tx.sender, last.tx.Nonce>> \in last.accepted
  /\ last.tx.Type = "RedeemCheck"


\* the change of the balances in coin of the sender and the recipient of the
\* Send of the call, one account counted once
SendDeltaBalances(coin) ==
  IF last.tx.sender = last.tx.data.To
  THEN DeltaBalance(last.tx.sender, coin)
  ELSE DeltaBalance(last.tx.sender, coin) + DeltaBalance(last.tx.data.To, coin)

\* C5: a delivered Send of the base coin that returns OK takes value +
\* commission from the sender, gives value to the recipient and the
\* commission to the reward pool, so that the three changes add up to zero
\* (a Send to oneself costs the commission).
C5_SendBaseConserves ==
  (Applied("Send") /\ last.tx.data.Coin = BaseCoin) =>
    /\ DeltaPool = LastCommissionInBase
    /\ IF last.tx.sender = last.tx.data.To
       THEN DeltaBalance(last.tx.sender, BaseCoin) = -LastCommissionInBase
       ELSE /\ DeltaBalance(last.tx.sender, BaseCoin)
                 = -(last.tx.data.Value + LastCommissionInBase)
            /\ DeltaBalance(last.tx.data.To, BaseCoin) = last.tx.data.Value
    /\ SendDeltaBalances(BaseCoin) + DeltaPool = 0

\* C5 witness: an account sent base coin to itself at gas price 2.
C5_Witness ==
  /\ Applied("Send")
  /\ last.tx.data.Coin = BaseCoin
  /\ last.tx.sender = last.tx.data.To
  /\ last.tx.GasPrice = 2

\* C6 as stated: after a delivered Send of a non-base coin C that returns OK
\* the changes of balance(sender, C), balance(to, C) and volume(C) add up to
\* zero.
C6_Original ==
  (Applied("Send") /\ last.tx.data.Coin # BaseCoin) =>
    SendDeltaBalances(last.tx.data.Coin) + DeltaVolume(last.tx.data.Coin) = 0

\* C6 amended: the units of C burnt as commission leave the balances and the
\* volume alike: the change of balance(sender, C) plus the change of
\* balance(to, C) equals the change of volume(C).
C6_SendCoinConserves ==
  (Applied("Send") /\ last.tx.data.Coin # BaseCoin) =>
    SendDeltaBalances(last.tx.data.Coin) - DeltaVolume(last.tx.data.Coin) = 0

\* C6 witness: units of a non-base coin were sent to another account and the
\* volume of the coin shrank.
C6_Witness ==
  /\ Applied("Send")
  /\ last.tx.data.Coin = CoinC
  /\ last.tx.sender # last.tx.data.To
  /\ DeltaVolume(CoinC) < 0

\* the call is a Send whose envelope and nonce pass
SendReachesHandler ==
  /\ last.called
  /\ last.tx.Type = "Send"
  /\ EnvelopeOk
  /\ last.isCheck \/ NonceOk

\* C7: a delivered Send of a non-base coin C that returns OK moves exactly
\* gas_price * gas * 10^9 from the reserve of C to the reward pool and leaves
\* the reserve non-negative; a Send of a registered non-base coin whose
\* reserve is below that amount is answered CoinReserveNotSufficient.
C7_SendCoinReserve ==
  /\ (Applied("Send") /\ last.tx.data.Coin # BaseCoin) =>
       /\ DeltaReserve(last.tx.data.Coin) = -LastCommissionInBase
       /\ DeltaPool = LastCommissionInBase
       /\ DeltaReserve(last.tx.data.Coin) + DeltaPool = 0
       /\ context.coins[last.tx.data.Coin].reserve >= 0
  /\ (/\ SendReachesHandler
      /\ last.tx.data.Coin # BaseCoin
      /\ last.context.coins[last.tx.data.Coin].exists
      /\ last.context.coins[last.tx.data.Coin].reserve < LastCommissionInBase) =>
       Returned("CoinReserveNotSufficient")

\* C7 witness: a Send of a non-base coin took one unit from its reserve.
C7_Witness ==
  Applied("Send") /\ last.tx.data.Coin = CoinC /\ DeltaReserve(CoinC) = -1

\* the symbol-length price of the CreateCoin of the call, in units
LastSurcharge ==
  IF last.tx.Type = "CreateCoin"
        /\ SymbolPrice(Len(SymbolString(last.tx.data.Symbol))) # 0
  THEN GigaUnit * SymbolPrice(Len(SymbolString(last.tx.data.Symbol)))
  ELSE 0

\* C8: whatever the type and the coin the fee is paid in, a delivered call
\* that returns OK adds to the reward pool exactly the commission in base
\* coin, gas_price * gas * 10^9 (plus the symbol price for CreateCoin).
C8_PoolInBaseCoin ==
  (Delivered /\ Returned("OK")) => DeltaPool = LastCommissionInBase + LastSurcharge

\* the call is a RedeemCheck whose envelope and nonce pass
RedeemReachesHandler ==
  /\ last.called
  /\ last.tx.Type = "RedeemCheck"
  /\ EnvelopeOk
  /\ last.isCheck \/ NonceOk

\* C9: once a delivered RedeemCheck of a check has returned OK, every later
\* RedeemCheck of that check, from any sender, is answered CheckUsed and
\* changes nothing; no check is redeemed a second time.
C9_CheckRedeemedOnce ==
  /\ (/\ RedeemReachesHandler
      /\ last.tx.data.RawCheck \in last.redeemed
      /\ last.tx.data.RawCheck.DueBlock >= CurrentBlock) =>
       (Returned("CheckUsed") /\ Untouched)
  /\ Applied("RedeemCheck") => last.tx.data.RawCheck \notin last.redeemed

\* C9 witness: a redeemed check was presented again in deliver mode and
\* refused.
C9_Witness ==
  /\ Delivered
  /\ last.tx.Type = "RedeemCheck"
  /\ last.tx.data.RawCheck \in last.redeemed
  /\ Returned("CheckUsed")

\* the RedeemCheck of the call passes the checks that precede the one of the
\* gas price: the check decodes, its coin exists, it is not expired, not used
RedeemReachesGasPrice ==
  /\ RedeemReachesHandler
  /\ ~last.tx.data.RawCheck.decodeErr
  /\ ~last.tx.data.RawCheck.senderErr
  /\ CoinExists(last.context, last.tx.data.RawCheck.Coin)
  /\ last.tx.data.RawCheck.DueBlock >= CurrentBlock
  /\ last.tx.data.RawCheck \notin last.context.usedChecks

\* C10 as stated: a RedeemCheck whose gas price is anything but 1 is answered
\* TooHighGasPrice.
C10_Original ==
  (RedeemReachesGasPrice /\ last.tx.GasPrice # 1) => Returned("TooHighGasPrice")

\* C10 amended: a RedeemCheck whose gas price is greater than 1 is answered
\* TooHighGasPrice (a gas price of 0 is accepted), so the fee of a redeemed
\* check is gas_price * gas * 10^9 with gas_price 0 or 1, at most
\* 1 * gas * 10^9.
C10_GasPriceAtMostOne ==
  /\ (RedeemReachesGasPrice /\ last.tx.GasPrice > 1) => Returned("TooHighGasPrice")
  /\ (last.called /\ last.tx.Type = "RedeemCheck" /\ Returned("OK")) =>
       last.tx.GasPrice <= 1
  /\ Applied("RedeemCheck") =>
       /\ DeltaPool = LastCommissionInBase
       /\ DeltaPool <= 1 * last.tx.gas * CommissionMultiplier

\* C10 witness: a RedeemCheck with gas price 2 was refused for its gas price.
C10_Witness ==
  /\ RedeemReachesGasPrice
  /\ last.tx.GasPrice = 2
  /\ Returned("TooHighGasPrice")

\* the RedeemCheck of the call passes every check that precedes the
\* computation of its fee (lines 404-474)
RedeemReachesFee ==
  /\ RedeemReachesGasPrice
  /\ ~GasPriceTooHigh(last.tx)
  /\ ~last.tx.data.RawCheck.lockErr
  /\ ~last.tx.data.Proof.recoverErr
  /\ last.tx.data.RawCheck.lockPublicKey = Ecrecover(last.tx.sender, last.tx.data.Proof)

\* C11: a RedeemCheck whose check coin is not the base coin and whose reserve
\* is below the commission in base coin is answered CoinReserveNotSufficient.
C11_RedeemReserveChecked ==
  (/\ RedeemReachesFee
   /\ last.tx.data.RawCheck.Coin # BaseCoin
   /\ last.context.coins[last.tx.data.RawCheck.Coin].reserve < LastCommissionInBase) =>
    Returned("CoinReserveNotSufficient")

\* the commission of the RedeemCheck of the call, in the coin of its check
LastRedeemCommission ==
  FeeInCoin(last.context, last.tx.data.RawCheck.Coin, LastCommissionInBase)

\* the used-check set and the nonces after a delivered RedeemCheck that
\* returned OK: the check is used, the redeemer's nonce is bumped, every other
\* nonce is as before
RedeemBookkeeping ==
  /\ last.tx.data.RawCheck \in context.usedChecks
  /\ context.nonce[last.tx.sender] = last.context.nonce[last.tx.sender] + 1
  /\ \A a \in Addr \ {last.tx.sender} : context.nonce[a] = last.context.nonce[a]

\* a RedeemCheck whose issuer holds less than value + commission in the coin
\* of the check is answered InsufficientFunds
RedeemIssuerMustAfford ==
  (/\ RedeemReachesFee
   /\ last.resp.returned
   /\ GetBalance(last.context, last.tx.data.RawCheck.issuer, last.tx.data.RawCheck.Coin)
        < last.tx.data.RawCheck.Value + LastRedeemCommission) =>
    Returned("InsufficientFunds")

\* C12 as stated: after every delivered RedeemCheck that returns OK the
\* issuer's balance in the check coin is down by value + commission and the
\* redeemer's balance in that coin is up by exactly value (with the used
\* check, the nonces and the InsufficientFunds rejection as below).
C12_Original ==
  /\ Applied("RedeemCheck") =>
       /\ DeltaBalance(last.tx.data.RawCheck.issuer, last.tx.data.RawCheck.Coin)
            = -(last.tx.data.RawCheck.Value + LastRedeemCommission)
       /\ DeltaBalance(last.tx.sender, last.tx.data.RawCheck.Coin)
            = last.tx.data.RawCheck.Value
       /\ RedeemBookkeeping
  /\ RedeemIssuerMustAfford

\* C12 amended: the issuer pays.  After a delivered RedeemCheck that returns
\* OK whose redeemer is not the issuer, the issuer's balance in the check coin
\* is down by value + commission and the redeemer's is up by exactly value;
\* when the issuer redeems its own check its balance is down by the
\* commission.  The check is in the used-check set, the redeemer's nonce is
\* bumped and no other nonce changes.  A RedeemCheck whose issuer holds less
\* than value + commission is answered InsufficientFunds, whatever the
\* redeemer holds.
C12_IssuerPays ==
  /\ Applied("RedeemCheck") =>
       /\ IF last.tx.data.RawCheck.issuer # last.tx.sender
          THEN /\ DeltaBalance(last.tx.data.RawCheck.issuer, last.tx.data.RawCheck.Coin)
                    = -(last.tx.data.RawCheck.Value + LastRedeemCommission)
               /\ DeltaBalance(last.tx.sender, last.tx.data.RawCheck.Coin)
                    = last.tx.data.RawCheck.Value
          ELSE DeltaBalance(last.tx.sender, last.tx.data.RawCheck.Coin)
                 = -LastRedeemCommission
       /\ RedeemBookkeeping
  /\ RedeemIssuerMustAfford

\* C12 witness: a check in a non-base coin was redeemed by an address other
\* than its issuer.
C12_Witness ==
  /\ Applied("RedeemCheck")
  /\ last.tx.data.RawCheck.Coin = CoinC
  /\ last.tx.data.RawCheck.issuer # last.tx.sender

\* the call is an Unbond whose envelope and nonce pass
UnbondReachesHandler ==
  /\ last.called
  /\ last.tx.Type = "Unbond"
  /\ EnvelopeOk
  /\ last.isCheck \/ NonceOk

\* the stake of the sender of the call, in the coin of its payload, under the
\* public key of its payload, in state ctx
LastStake(ctx) ==
  GetStakeOfAddress(GetStateCandidate(ctx, last.tx.data.PubKey),
                    last.tx.sender, last.tx.data.Coin)

\* the frozen-funds entry a delivered Unbond at block CurrentBlock adds
LastFrozenFund ==
  [block |-> CurrentBlock + 518400, address |-> last.tx.sender,
   pubkey |-> last.tx.data.PubKey.id, coin |-> last.tx.data.Coin,
   value |-> last.tx.data.Value]

\* C13: a delivered Unbond that returns OK at block b takes exactly value from
\* the sender's stake (sender, coin) under pub_key and from no other stake,
\* adds exactly one entry (sender, pub_key, coin, value) to the frozen funds,
\* at block b + 518400, credits no balance and takes the commission from the
\* sender's base balance; an Unbond of a missing stake is answered
\* StakeNotFound and one of more than the stake InsufficientStake.
C13_UnbondFreezes ==
  /\ Applied("Unbond") =>
       /\ LastStake(context).value = LastStake(last.context).value - last.tx.data.Value
       /\ \A p \in PubKeyIds, k \in Addr \X Syms :
            (p # last.tx.data.PubKey.id \/ k # <<last.tx.sender, last.tx.data.Coin>>) =>
              context.candidates[p].Stakes[k] = last.context.candidates[p].Stakes[k]
       /\ context.frozenFunds = Append(last.context.frozenFunds, LastFrozenFund)
       /\ \A a \in Addr, c \in Syms :
            DeltaBalance(a, c) =
              IF a = last.tx.sender /\ c = BaseCoin THEN -LastCommissionInBase ELSE 0
  /\ (/\ UnbondReachesHandler
      /\ GetBalance(last.context, last.tx.sender, BaseCoin) >= LastCommissionInBase
      /\ CandidateExists(last.context, last.tx.data.PubKey)) =>
       /\ ~LastStake(last.context).has => Returned("StakeNotFound")
       /\ (LastStake(last.context).has
             /\ LastStake(last.context).value < last.tx.data.Value) =>
            Returned("InsufficientStake")
       /\ (Returned("StakeNotFound") \/ Returned("InsufficientStake")) => Untouched

\* C13 witness: a part of a stake was unbonded and frozen.
C13_Witness ==
  /\ Applied("Unbond")
  /\ LastStake(context).value > 0
  /\ Len(context.frozenFunds) = 1

\* the call is a SetCandidateOnline or SetCandidateOffline whose envelope and
\* nonce pass and whose candidate exists
SwitchReachesCandidate ==
  /\ last.called
  /\ last.tx.Type \in {"SetCandidateOnline", "SetCandidateOffline"}
  /\ EnvelopeOk
  /\ last.isCheck \/ NonceOk
  /\ CandidateExists(last.context, last.tx.data.PubKey)

\* the owner address of the candidate of the call, before the call
LastOwner == GetStateCandidate(last.context, last.tx.data.PubKey).CandidateAddress

\* C14: the status of an existing candidate changes only by a delivered
\* SetCandidateOnline or SetCandidateOffline for that candidate that returns
\* OK and whose sender is the candidate's owner address; the same transaction
\* from another sender is never answered OK, changes nothing, and is answered
\* IsNotOwnerOfCandidate when that sender can pay the commission.
C14_OwnerSwitchesStatus ==
  /\ last.called =>
       \A p \in PubKeyIds :
         (/\ last.context.candidates[p].exists
          /\ context.candidates[p].Status # last.context.candidates[p].Status) =>
           /\ Applied("SetCandidateOnline") \/ Applied("SetCandidateOffline")
           /\ last.tx.data.PubKey.id = p
           /\ last.tx.sender = last.context.candidates[p].CandidateAddress
           /\ context.candidates[p].Status =
                IF last.tx.Type = "SetCandidateOnline" THEN "online" ELSE "offline"
  /\ (SwitchReachesCandidate /\ last.tx.sender # LastOwner) =>
       /\ ~Returned("OK")
       /\ Untouched
       /\ GetBalance(last.context, last.tx.sender, BaseCoin) >= LastCommissionInBase =>
            Returned("IsNotOwnerOfCandidate")

\* C14 witness: the address that declared and paid for a candidate, but is
\* not its owner address, tried to set it online and was refused.
C14_Witness ==
  /\ Delivered
  /\ last.tx.Type = "SetCandidateOnline"
  /\ last.tx.data.PubKey.id = "P2"
  /\ LastOwner = "a2"
  /\ last.tx.sender = "a1"
  /\ Returned("IsNotOwnerOfCandidate")

\* the value of the tx.return tag of the response of the call
LastReturnTag == last.resp.Tags[5][2]

\* the commission of the SellCoin or BuyCoin of the call, in CoinToSell
LastConvertCommission ==
  FeeInCoin(last.context, last.tx.data.CoinToSell, LastCommissionInBase)

\* C15: after every delivered BuyCoin that returns OK the sender's balance of
\* coin_to_buy is up by exactly value_to_buy and the sender's balance of
\* coin_to_sell is down by value + commission, value being the cost reported
\* in the tx.return tag.
C15_BuyCoinCreditsValueToBuy ==
  Applied("BuyCoin") =>
    /\ DeltaBalance(last.tx.sender, last.tx.data.CoinToBuy) = last.tx.data.ValueToBuy
    /\ DeltaBalance(last.tx.sender, last.tx.data.CoinToSell)
         = -(LastReturnTag + LastConvertCommission)

\* the call is a CreateCoin whose envelope and nonce pass and whose symbol
\* matches allowedCoinSymbols
CreateReachesFunds ==
  /\ last.called
  /\ last.tx.Type = "CreateCoin"
  /\ EnvelopeOk
  /\ last.isCheck \/ NonceOk
  /\ allowedCoinSymbols(SymbolString(last.tx.data.Symbol))

\* the sender of the CreateCoin of the call holds InitialReserve + commission
\* in base coin (compared as the handler compares, without the product)
CreateAffordable ==
  (GetBalance(last.context, last.tx.sender, BaseCoin) - last.tx.data.InitialReserve
     - LastCommissionInBase) \div GigaUnit
    >= SymbolPrice(Len(SymbolString(last.tx.data.Symbol)))

C17_CoinsWellFormed ==
  \A c \in RegSyms :
    context.coins[c].exists =>
      /\ context.coins[c].volume > 0
      /\ context.coins[c].reserve > 0
      /\ context.coins[c].crr >= 10
      /\ context.coins[c].crr <= 100

\* the call is a DeclareCandidacy that passes every check made before the one
\* of the existence of the candidate (lines 50-132)
DeclareReachesCandidate ==
  /\ last.called
  /\ last.tx.Type = "DeclareCandidacy"
  /\ EnvelopeOk
  /\ last.isCheck \/ NonceOk
  /\ last.tx.data.PubKey.len = 32
  /\ last.resp.returned
  /\ ~Returned("CoinReserveNotSufficient")
  /\ ~Returned("InsufficientFunds")

\* C18: after a delivered DeclareCandidacy that returns OK the candidate's
\* owner is the address of the payload, its created_at is the current block
\* and its initial stake is recorded under (sender, coin), the account that
\* was debited, also when the address of the payload is not the sender; a
\* DeclareCandidacy for an existing public key is answered CandidateExists and
\* changes nothing.
C18_StakeOwnedBySender ==
  /\ Applied("DeclareCandidacy") =>
       /\ GetStateCandidate(context, last.tx.data.PubKey).CandidateAddress
            = last.tx.data.Address
       /\ GetStateCandidate(context, last.tx.data.PubKey).CreatedAtBlock = CurrentBlock
       /\ GetStakeOfAddress(GetStateCandidate(context, last.tx.data.PubKey),
                            last.tx.sender, last.tx.data.Coin)
            = [has |-> TRUE, value |-> last.tx.data.Stake]
  /\ (DeclareReachesCandidate /\ CandidateExists(last.context, last.tx.data.PubKey)) =>
       (Returned("CandidateExists") /\ Untouched)

\* the Send of the call names a registered non-base coin whose reserve is
\* below the commission in base coin
SendReserveShort ==
  /\ last.tx.data.Coin # BaseCoin
  /\ GetStateCoin(last.context, last.tx.data.Coin).reserve < LastCommissionInBase

\* C19 as stated: Send reports the first failing check in the order coin
\* exists (CoinNotExists), payer has value + commission (InsufficientFunds),
\* fee engine (CoinReserveNotSufficient): a Send of an existing coin whose
\* sender holds less than the value alone is answered InsufficientFunds, also
\* when the reserve of the coin is below the commission in base coin.
C19_Original ==
  SendReachesHandler =>
    IF ~CoinExists(last.context, last.tx.data.Coin) THEN Returned("CoinNotExists")
    ELSE GetBalance(last.context, last.tx.sender, last.tx.data.Coin) < last.tx.data.Value
           => Returned("InsufficientFunds")

\* C19 amended: Send reports the first failing check in the order coin exists
\* (CoinNotExists), fee engine (CoinReserveNotSufficient), payer has value +
\* commission (InsufficientFunds); a Send of an existing non-base coin whose
\* reserve is below the commission in base coin is answered
\* CoinReserveNotSufficient whatever the sender holds.
C19_SendOrder ==
  SendReachesHandler =>
    IF ~CoinExists(last.context, last.tx.data.Coin) THEN Returned("CoinNotExists")
    ELSE IF SendReserveShort THEN Returned("CoinReserveNotSufficient")
    ELSE last.resp.returned =>
           IF GetBalance(last.context, last.tx.sender, last.tx.data.Coin)
                < last.tx.data.Value
                  + FeeInCoin(last.context, last.tx.data.Coin, LastCommissionInBase)
           THEN Returned("InsufficientFunds")
           ELSE Returned("OK")

\* C19 witness: a Send of a non-base coin whose sender holds less than the
\* value and whose reserve is below the commission in base coin.
C19_Witness ==
  /\ SendReachesHandler
  /\ CoinExists(last.context, last.tx.data.Coin)
  /\ SendReserveShort
  /\ GetBalance(last.context, last.tx.sender, last.tx.data.Coin) < last.tx.data.Value
  /\ Returned("CoinReserveNotSufficient")

\* one evaluation of a bonding-curve formula: the function, the entry of the
\* coin it is evaluated on, and the amount
FormulaCall(fn, coin, x) ==
  [fn |-> fn, vol |-> coin.volume, res |-> coin.reserve, crr |-> coin.crr, x |-> x]

\* the conversion of the commission behind the reserve test, as DeclareCandidacy
\* (114-123), Delegate (249-258), Send (354-363), SellCoin (548-557) and
\* BuyCoin (662-671) make it
GuardedFeeCalls(ctx, symbol, commissionInBaseCoin) ==
  IF /\ symbol # BaseCoin
     /\ HasStateCoin(ctx, symbol)
     /\ GetStateCoin(ctx, symbol).reserve >= commissionInBaseCoin
  THEN {FormulaCall("sale_amount", GetStateCoin(ctx, symbol), commissionInBaseCoin)}
  ELSE {}

\* the conversion of the commission of RedeemCheck (480-483)
RedeemFeeCalls(ctx, symbol, commissionInBaseCoin) ==
  IF symbol # BaseCoin
  THEN {FormulaCall("sale_amount", GetStateCoin(ctx, symbol), commissionInBaseCoin)}
  ELSE {}

\* the trade computations of SellCoin (583-606) on c1, the state after the
\* first writes
SellTradeCalls(c1, data) ==
  IF data.CoinToSell = BaseCoin
  THEN {FormulaCall("purchase_return", GetStateCoin(c1, data.CoinToBuy), data.ValueToSell)}
  ELSE {FormulaCall("sale_return", GetStateCoin(c1, data.CoinToSell), data.ValueToSell)}
       \cup (IF /\ data.CoinToBuy # BaseCoin
                /\ DefinedSaleReturn(GetStateCoin(c1, data.CoinToSell).volume,
                                     GetStateCoin(c1, data.CoinToSell).reserve,
                                     GetStateCoin(c1, data.CoinToSell).crr, data.ValueToSell)
             THEN {FormulaCall("purchase_return", GetStateCoin(c1, data.CoinToBuy),
                               SellCoinBase(c1, data))}
             ELSE {})

\* the trade computations of BuyCoin (676-715)
BuyTradeCalls(ctx, data) ==
  IF data.CoinToSell = BaseCoin
  THEN {FormulaCall("purchase_amount", GetStateCoin(ctx, data.CoinToBuy), data.ValueToBuy)}
  ELSE IF data.CoinToBuy = BaseCoin
  THEN {FormulaCall("sale_amount", GetStateCoin(ctx, data.CoinToSell), data.ValueToBuy)}
  ELSE {FormulaCall("purchase_amount", GetStateCoin(ctx, data.CoinToBuy), data.ValueToBuy)}
       \cup (IF DefinedPurchaseAmount(GetStateCoin(ctx, data.CoinToBuy).volume,
                                      GetStateCoin(ctx, data.CoinToBuy).reserve,
                                      GetStateCoin(ctx, data.CoinToBuy).crr, data.ValueToBuy)
             THEN {FormulaCall("sale_amount", GetStateCoin(ctx, data.CoinToSell),
                               BuyCoinBase(ctx, data))}
             ELSE {})

\* the formula evaluations of a SellCoin or BuyCoin that reaches its fee
ConvertCalls(ctx, isCheck, tx, commissionInBaseCoin) ==
  IF \/ tx.data.CoinToSell = tx.data.CoinToBuy
     \/ ~CoinExists(ctx, tx.data.CoinToSell)
     \/ ~CoinExists(ctx, tx.data.CoinToBuy)
  THEN {}
  ELSE GuardedFeeCalls(ctx, tx.data.CoinToSell, commissionInBaseCoin)
       \cup (IF ConvertFeeCheck(ctx, tx.data, commissionInBaseCoin) # "ok" THEN {}
             ELSE IF tx.Type = "BuyCoin" THEN BuyTradeCalls(ctx, tx.data)
             ELSE IF GetBalance(ctx, tx.sender, tx.data.CoinToSell)
                       < tx.data.ValueToSell
                         + FeeInCoin(ctx, tx.data.CoinToSell, commissionInBaseCoin)
               THEN {}
             ELSE IF isCheck THEN SellTradeCalls(ctx, tx.data)
             ELSE SellTradeCalls(
                    SellCoinFee(ctx, tx.data, tx.sender,
                                FeeInCoin(ctx, tx.data.CoinToSell, commissionInBaseCoin),
                                commissionInBaseCoin),
                    tx.data))

\* the bonding-curve evaluations RunTx makes in the call
LastFormulaCalls ==
  IF ~(last.called /\ EnvelopeOk /\ (last.isCheck \/ NonceOk)) THEN {}
  ELSE IF last.tx.Type \in {"SellCoin", "BuyCoin"}
    THEN ConvertCalls(last.context, last.isCheck, last.tx, LastCommissionInBase)
  ELSE IF last.tx.Type = "RedeemCheck"
    THEN IF RedeemReachesFee
         THEN RedeemFeeCalls(last.context, last.tx.data.RawCheck.Coin, LastCommissionInBase)
         ELSE {}
  ELSE IF last.tx.Type = "Send"
    THEN IF CoinExists(last.context, last.tx.data.Coin)
         THEN GuardedFeeCalls(last.context, last.tx.data.Coin, LastCommissionInBase)
         ELSE {}
  ELSE IF last.tx.Type = "Delegate"
    THEN GuardedFeeCalls(last.context, last.tx.data.Coin, LastCommissionInBase)
  ELSE IF last.tx.Type = "DeclareCandidacy"
    THEN IF last.tx.data.PubKey.len = 32
         THEN GuardedFeeCalls(last.context, last.tx.data.Coin, LastCommissionInBase)
         ELSE {}
  ELSE {}

\* C20: every bonding-curve evaluation RunTx makes has its amount inside the
\* domain of the curve: sale_amount is evaluated with an amount not above the
\* reserve and sale_return with an amount not above the volume.
C20_FormulasInDomain ==
  \A e \in LastFormulaCalls :
    /\ e.fn = "sale_amount" => e.x <= e.res
    /\ e.fn = "sale_return" => e.x <= e.vol

\* ------------------------------------------------------------- supply

RECURSIVE SumOf(_, _)
\* sum of the values of the function f over the finite set S
SumOf(f, S) ==
  IF S = {} THEN 0
  ELSE f[CHOOSE x \in S : TRUE] + SumOf(f, S \ {CHOOSE x \in S : TRUE})

\* sum of the balances of all accounts in the coin
BalancesIn(ctx, coin) == SumOf([a \in Addr |-> GetBalance(ctx, a, coin)], Addr)

\* sum of the stakes all candidates hold in the coin
StakesIn(ctx, coin) ==
  SumOf([k \in PubKeyIds \X Addr |->
           IF ctx.candidates[k[1]].exists
           THEN ctx.candidates[k[1]].Stakes[<<k[2], coin>>].value ELSE 0],
        PubKeyIds \X Addr)

\* sum of the frozen funds held in the coin
FrozenIn(ctx, coin) ==
  SumOf([i \in DOMAIN ctx.frozenFunds |->
           IF ctx.frozenFunds[i].coin = coin THEN ctx.frozenFunds[i].value ELSE 0],
        DOMAIN ctx.frozenFunds)

\* sum of the reserves of the registered coins
ReservesOf(ctx) ==
  SumOf([c \in RegSyms |-> IF ctx.coins[c].exists THEN ctx.coins[c].reserve ELSE 0],
        RegSyms)

\* all base coin there is: balances, reserves, stakes, frozen funds and the
\* reward pool
BaseCoinTotal(ctx, pool) ==
  BalancesIn(ctx, BaseCoin) + ReservesOf(ctx) + StakesIn(ctx, BaseCoin)
    + FrozenIn(ctx, BaseCoin) + pool

\* C21: a delivered call of any type that returns leaves the total of base
\* coin (balances, coin reserves, stakes and frozen funds in base coin, reward
\* pool) as it was: base coin is neither created nor destroyed.
C21_BaseCoinConserved ==
  (Delivered /\ last.resp.returned) =>
    BaseCoinTotal(context, rewardPull) = BaseCoinTotal(last.context, last.rewardPull)

\* all units of the coin held by accounts, stakes and frozen funds
CoinHeld(ctx, coin) ==
  BalancesIn(ctx, coin) + StakesIn(ctx, coin) + FrozenIn(ctx, coin)

\* C22: in every state reached by delivered transactions, the volume of every
\* registered non-base coin equals the units of it held in account balances,
\* live stakes and frozen funds: every handler that burns or mints units of
\* the coin adjusts its volume by the same amount.
C22_VolumeIsSupply ==
  (last.called => last.resp.returned) =>
    \A c \in RegSyms :
      context.coins[c].exists => context.coins[c].volume = CoinHeld(context, c)

\* no account balance and no stake of the state is negative
NoNegativeAmounts(ctx) ==
  /\ \A k \in Addr \X Syms : ctx.balance[k] >= 0
  /\ \A p \in PubKeyIds : \A k \in Addr \X Syms : ctx.candidates[p].Stakes[k].value >= 0

\* C23: after any sequence of delivered transactions every account balance in
\* every coin and every stake is >= 0: a handler debits an account or a stake
\* only after checking that it holds the total debited in the call.
C23_NoNegativeAmounts ==
  NoNegativeAmounts(context)

\* a delivered BuyCoin took the last units the sender held of the coin sold
C23_Witness ==
  /\ Applied("BuyCoin")
  /\ GetBalance(last.context, last.tx.sender, last.tx.data.CoinToSell) > 0
  /\ GetBalance(context, last.tx.sender, last.tx.data.CoinToSell) = 0

\* the response RunTx gives, in the mode, to the transaction of the call on
\* the state the call was made on
ResponseIn(isCheck) ==
  RunTx(last.context, isCheck, last.tx, last.rewardPull, CurrentBlock).resp

\* C24: for every state and every transaction that carries the nonce the
\* state expects, RunTx in check mode and RunTx in deliver mode return the
\* same response: the same code, the same gas values and the same tags,
\* including the tx.return amount of SellCoin and BuyCoin.
C24_CheckPredictsDeliver ==
  (last.called /\ NonceOk) => ResponseIn(TRUE) = ResponseIn(FALSE)

\* the coins named by the transaction of the call, for the types that convert
\* a fee or a trade through a coin entry
LastNamedCoins ==
  IF last.tx.Type \in {"Send", "Delegate", "DeclareCandidacy"} THEN {last.tx.data.Coin}
  ELSE IF last.tx.Type \in {"SellCoin", "BuyCoin"}
    THEN {last.tx.data.CoinToSell, last.tx.data.CoinToBuy}
  ELSE IF last.tx.Type = "RedeemCheck" THEN {last.tx.data.RawCheck.Coin}
  ELSE {}

\* the call passes the checks its handler makes before it looks at the coins
\* of the transaction: the envelope and the nonce, the length of the public
\* key (104), the decoding of the check (406-420), the coins being two (526)
ReachesCoinLookup ==
  /\ last.called
  /\ EnvelopeOk
  /\ last.isCheck \/ NonceOk
  /\ last.tx.Type = "DeclareCandidacy" => last.tx.data.PubKey.len = 32
  /\ last.tx.Type = "RedeemCheck" =>
       ~last.tx.data.RawCheck.decodeErr /\ ~last.tx.data.RawCheck.senderErr
  /\ last.tx.Type \in {"SellCoin", "BuyCoin"} =>
       last.tx.data.CoinToSell # last.tx.data.CoinToBuy

\* C25: a transaction naming a coin that is not registered is answered
\* CoinNotExists, before the entry of the coin is read, by every handler that
\* converts a fee or a trade through a coin entry (Send, SellCoin, BuyCoin,
\* DeclareCandidacy, Delegate, RedeemCheck): the call returns a Response and
\* does not crash.
C25_UnregisteredCoinRejected ==
  (ReachesCoinLookup /\ \E c \in LastNamedCoins : ~CoinExists(last.context, c)) =>
    Returned("CoinNotExists")

====
